---- MODULE Spec2Model ----
(***************************************************************************)
(* Booking engine of move_e-backend: the booking lifecycle handlers of     *)
(* src/routes/bookingRoutes.ts (add-bookings, accept, reject,              *)
(* cancel-booking, track), the Booking schema's pre-validate hook, the     *)
(* operating-schedule check and the push dispatch with token pruning.      *)
(*                                                                         *)
(* Every handler is one action: load, guard, mutate, save (with the        *)
(* schema validation), dispatch, prune, respond.  Requests are served one  *)
(* at a time in specification Spec.                                        *)
(***************************************************************************)
EXTENDS Integers, Sequences, FiniteSets, TLC

(***************************************************************************)
(* Bounds of the model.                                                    *)
(***************************************************************************)
MaxBookings == 2
MaxTime == 3
MaxLocations == 2

(***************************************************************************)
(* JavaScript values.  A request field or a stored optional field is one   *)
(* of: undefined, a string (a sequence of one-character strings), a        *)
(* number.  All three are records of the same shape.                       *)
(***************************************************************************)
Undef == [t |-> "undefined", s |-> <<>>, n |-> 0]
Str(chars) == [t |-> "string", s |-> chars, n |-> 0]
Num(k) == [t |-> "number", s |-> <<>>, n |-> k]

\* JS truthiness of a value: undefined, "" and 0 are falsy.
Truthy(v) ==
  CASE v.t = "undefined" -> FALSE
    [] v.t = "string" -> v.s # <<>>
    [] v.t = "number" -> v.n # 0

IsString(v) == v.t = "string"

Whitespace == {" "}

RECURSIVE TrimStart(_)
TrimStart(cs) ==
  IF cs = <<>> THEN cs
  ELSE IF Head(cs) \in Whitespace THEN TrimStart(Tail(cs)) ELSE cs

RECURSIVE TrimEnd(_)
TrimEnd(cs) ==
  IF cs = <<>> THEN cs
  ELSE IF cs[Len(cs)] \in Whitespace THEN TrimEnd(SubSeq(cs, 1, Len(cs) - 1)) ELSE cs

\* String.prototype.trim
Trim(cs) == TrimEnd(TrimStart(cs))

LowerOf(c) ==
  CASE c = "C" -> "c" [] c = "O" -> "o" [] c = "M" -> "m" [] c = "P" -> "p"
    [] c = "L" -> "l" [] c = "E" -> "e" [] c = "T" -> "t" [] c = "D" -> "d"
    [] c = "A" -> "a" [] c = "R" -> "r" [] c = "I" -> "i" [] c = "V" -> "v"
    [] OTHER -> c

\* String.prototype.toLowerCase
ToLowerCase(cs) == [i \in 1..Len(cs) |-> LowerOf(cs[i])]

(***************************************************************************)
(* The Booking document (models/booking.ts).                               *)
(***************************************************************************)
BookingStatus == {"pending", "confirmed", "cancelled", "completed", "rejected"}

\* bookingSchema.pre("validate"): TRUE iff validation passes.
PreValidate(doc) ==
  /\ doc.clientId # ""
  /\ doc.businessId # ""
  /\ Trim(doc.serviceTitle) # <<>>
  /\ Trim(doc.contactName) # <<>>
  /\ Trim(doc.contactPhone) # <<>>
  /\ doc.location.present => doc.location.address # <<>>
  /\ ~(Truthy(doc.rejectionReason) /\ doc.status # "rejected")
  /\ \A i \in 1..Len(doc.trackingHistory) : Trim(doc.trackingHistory[i].status) # <<>>

\* status: enum validator of the schema.
SchemaValid(doc) == doc.status \in BookingStatus

\* document.save(): validation first; a failure throws and nothing is written.
SaveOk(doc) == PreValidate(doc) /\ SchemaValid(doc)

(***************************************************************************)
(* Operating-schedule check (bookingRoutes.ts, helpers above add-bookings). *)
(***************************************************************************)
DigitValue(c) ==
  CASE c = "0" -> 0 [] c = "1" -> 1 [] c = "2" -> 2 [] c = "3" -> 3 [] c = "4" -> 4
    [] c = "5" -> 5 [] c = "6" -> 6 [] c = "7" -> 7 [] c = "8" -> 8 [] c = "9" -> 9
    [] OTHER -> -1

IsDigit(c) == DigitValue(c) >= 0

NaN == [nan |-> TRUE, v |-> 0]
Number(k) == [nan |-> FALSE, v |-> k]

RECURSIVE DigitsPrefix(_, _, _)
\* value of the longest prefix of digits of cs; seen = a digit was read
DigitsPrefix(cs, acc, seen) ==
  IF cs # <<>> /\ IsDigit(Head(cs))
  THEN DigitsPrefix(Tail(cs), acc * 10 + DigitValue(Head(cs)), TRUE)
  ELSE IF seen THEN Number(acc) ELSE NaN

\* parseInt(p, 10): leading whitespace skipped, optional sign, digits, rest ignored
ParseInt(cs) ==
  LET t == TrimStart(cs) IN
  IF t # <<>> /\ Head(t) = "-"
  THEN LET r == DigitsPrefix(Tail(t), 0, FALSE) IN IF r.nan THEN NaN ELSE Number(0 - r.v)
  ELSE IF t # <<>> /\ Head(t) = "+" THEN DigitsPrefix(Tail(t), 0, FALSE)
  ELSE DigitsPrefix(t, 0, FALSE)

RECURSIVE SplitColon(_, _)
\* t.split(":"): cur is the part being read
SplitColon(cs, cur) ==
  IF cs = <<>> THEN <<cur>>
  ELSE IF Head(cs) = ":" THEN <<cur>> \o SplitColon(Tail(cs), <<>>)
  ELSE SplitColon(Tail(cs), Append(cur, Head(cs)))

NoMinutes == -1

\* parseTimeToMinutes: minutes since midnight, or NoMinutes for null
parseTimeToMinutes(t) ==
  IF ~Truthy(t) \/ ~IsString(t) THEN NoMinutes
  ELSE
    LET parts == [i \in 1..Len(SplitColon(t.s, <<>>)) |-> ParseInt(SplitColon(t.s, <<>>)[i])] IN
    IF Len(parts) < 2 \/ (\E i \in 1..Len(parts) : parts[i].nan) THEN NoMinutes
    ELSE
      LET hours == parts[1].v
          minutes == parts[2].v
      IN IF hours < 0 \/ hours > 23 \/ minutes < 0 \/ minutes > 59 THEN NoMinutes
         ELSE hours * 60 + minutes

\* weekdayIndexToKey: 0 = Sunday .. 6 = Saturday
weekdayIndexToKey(idx) ==
  LET map == <<"Sun", "Mon", "Tue", "Wed", "Thu", "Fri", "Sat">> IN
  IF idx \in 0..6 THEN map[idx + 1] ELSE "Sun"

DayKeys == {"Sun", "Mon", "Tue", "Wed", "Thu", "Fri", "Sat"}

\* A day entry of the schedule map; NoEntry is a key the map does not hold.
DayEntry(open, close, closed) == [defined |-> TRUE, open |-> open, close |-> close, closed |-> closed]
NoEntry == [defined |-> FALSE, open |-> Undef, close |-> Undef, closed |-> FALSE]

\* formatDayAllowedRangesForKey
formatDayAllowedRangesForKey(rawSchedule, key) ==
  IF ~rawSchedule.present THEN <<"n","o","t"," ","s","p","e","c","i","f","i","e","d">>
  ELSE
    LET entry == rawSchedule.days[key] IN
    IF ~entry.defined THEN <<"c","l","o","s","e","d">>
    ELSE IF entry.closed THEN <<"c","l","o","s","e","d">>
    ELSE IF ~Truthy(entry.open) \/ ~Truthy(entry.close) THEN <<"c","l","o","s","e","d">>
    ELSE entry.open.s \o <<"-">> \o entry.close.s

\* A window that takes the closing minute in.
isTimeWithinOpenCloseInclusive(parsedDate, openStr, closeStr) ==
  LET s == parseTimeToMinutes(openStr)
      e == parseTimeToMinutes(closeStr)
      minutes == parsedDate.hours * 60 + parsedDate.minutes
  IN IF s = NoMinutes \/ e = NoMinutes THEN FALSE
     ELSE IF e > s THEN minutes >= s /\ minutes <= e
     ELSE minutes >= s \/ minutes < e

\* A window without the overnight branch.
isTimeWithinOpenCloseSameDay(parsedDate, openStr, closeStr) ==
  LET s == parseTimeToMinutes(openStr)
      e == parseTimeToMinutes(closeStr)
      minutes == parsedDate.hours * 60 + parsedDate.minutes
  IN IF s = NoMinutes \/ e = NoMinutes THEN FALSE
     ELSE minutes >= s /\ minutes < e

\* A matcher that takes equal open and close as a same-day interval.
isTimeWithinOpenCloseEqualAsSameDay(parsedDate, openStr, closeStr) ==
  LET s == parseTimeToMinutes(openStr)
      e == parseTimeToMinutes(closeStr)
      minutes == parsedDate.hours * 60 + parsedDate.minutes
  IN IF s = NoMinutes \/ e = NoMinutes THEN FALSE
     ELSE IF e >= s THEN minutes >= s /\ minutes < e
     ELSE minutes >= s \/ minutes < e

\* isTimeWithinOpenClose: parsedDate is [day, hours, minutes] in server local time
isTimeWithinOpenClose(parsedDate, openStr, closeStr) ==
  LET s == parseTimeToMinutes(openStr)
      e == parseTimeToMinutes(closeStr)
      minutes == parsedDate.hours * 60 + parsedDate.minutes
  IN IF s = NoMinutes \/ e = NoMinutes THEN FALSE
     ELSE IF e > s THEN minutes >= s /\ minutes < e
     ELSE minutes >= s \/ minutes < e

\* A schedule branch that does not look at the closed flag.
ScheduleCheckIgnoringClosed(rawSchedule, parsedDate) ==
  IF ~rawSchedule.present THEN "ok"
  ELSE
    LET key == weekdayIndexToKey(parsedDate.day)
        entry == rawSchedule.days[key]
        openStr == IF entry.defined THEN entry.open ELSE Undef
        closeStr == IF entry.defined THEN entry.close ELSE Undef
    IN IF parseTimeToMinutes(openStr) # NoMinutes /\ parseTimeToMinutes(closeStr) # NoMinutes
       THEN IF isTimeWithinOpenClose(parsedDate, openStr, closeStr) THEN "ok"
            ELSE "Requested time falls outside business operating hours."
       ELSE "Business operating hours not available for the requested day (treated as closed)."

\* A schedule branch that treats a business without a schedule as one whose
\* hours are not available.
ScheduleCheckRequiringSchedule(rawSchedule, parsedDate) ==
  LET key == weekdayIndexToKey(parsedDate.day)
      entry == rawSchedule.days[key]
      openStr == IF entry.defined THEN entry.open ELSE Undef
      closeStr == IF entry.defined THEN entry.close ELSE Undef
  IN IF entry.defined /\ entry.closed
     THEN "Business is closed on the requested day."
     ELSE IF parseTimeToMinutes(openStr) # NoMinutes /\ parseTimeToMinutes(closeStr) # NoMinutes
     THEN IF isTimeWithinOpenClose(parsedDate, openStr, closeStr) THEN "ok"
          ELSE "Requested time falls outside business operating hours."
     ELSE "Business operating hours not available for the requested day (treated as closed)."

\* The schedule branch of add-bookings: "ok" or the message of the 400 response.
ScheduleCheck(rawSchedule, parsedDate) ==
  IF ~rawSchedule.present THEN "ok"
  ELSE
    LET key == weekdayIndexToKey(parsedDate.day)
        entry == rawSchedule.days[key]
        openStr == IF entry.defined THEN entry.open ELSE Undef
        closeStr == IF entry.defined THEN entry.close ELSE Undef
    IN IF entry.defined /\ entry.closed
       THEN "Business is closed on the requested day."
       ELSE IF parseTimeToMinutes(openStr) # NoMinutes /\ parseTimeToMinutes(closeStr) # NoMinutes
       THEN IF isTimeWithinOpenClose(parsedDate, openStr, closeStr) THEN "ok"
            ELSE "Requested time falls outside business operating hours."
       ELSE "Business operating hours not available for the requested day (treated as closed)."

(***************************************************************************)
(* Push dispatch (sendPushToTokens and its inlined copies in accept,       *)
(* reject and track) and the token lists it is given.                      *)
(***************************************************************************)
SendMethods == <<"sendEachForMulticast", "sendMulticast", "sendToDevice">>

DeadCodes == {"messaging/registration-token-not-registered", "messaging/invalid-registration-token"}
OutcomeCodes == {"ok", "messaging/internal-error"} \cup DeadCodes

\* What the surroundings do during one notification step: the provider call
\* throws, or answers one code per token; the pruning update throws or not.
OutcomeOf(throws, codes, pullFails) == [throws |-> throws, codes |-> codes, pullFails |-> pullFails]

HasDead(codes) == \E i \in 1..Len(codes) : codes[i] \in DeadCodes

\* A choice that would prefer the oldest delivery shape.
LastSupported(messaging) ==
  IF SendMethods[3] \in messaging.methods THEN SendMethods[3]
  ELSE IF SendMethods[2] \in messaging.methods THEN SendMethods[2]
  ELSE IF SendMethods[1] \in messaging.methods THEN SendMethods[1]
  ELSE "none"

\* The first delivery shape the provider object has, "none" when it has none.
FirstSupported(messaging) ==
  IF SendMethods[1] \in messaging.methods THEN SendMethods[1]
  ELSE IF SendMethods[2] \in messaging.methods THEN SendMethods[2]
  ELSE IF SendMethods[3] \in messaging.methods THEN SendMethods[3]
  ELSE "none"

RECURSIVE CountCodes(_, _)
CountCodes(codes, wanted) ==
  IF codes = <<>> THEN 0
  ELSE (IF Head(codes) \in wanted THEN 1 ELSE 0) + CountCodes(Tail(codes), wanted)

RECURSIVE FailedTokensAnyFailure(_, _)
\* A classification that would take every failure for a dead token.
FailedTokensAnyFailure(tokens, codes) ==
  IF tokens = <<>> THEN <<>>
  ELSE (IF Head(codes) # "ok" THEN <<Head(tokens)>> ELSE <<>>)
       \o FailedTokensAnyFailure(Tail(tokens), Tail(codes))

RECURSIVE FailedTokens(_, _)
\* tokens[i] for every i whose response carries a dead-token code, in order
FailedTokens(tokens, codes) ==
  IF tokens = <<>> THEN <<>>
  ELSE (IF Head(codes) \in DeadCodes THEN <<Head(tokens)>> ELSE <<>>)
       \o FailedTokens(Tail(tokens), Tail(codes))

NoSend(kind) ==
  [kind |-> kind, method |-> "none", successCount |-> 0, failureCount |-> 0, failedTokens |-> <<>>]

\* A helper that would answer with an error when there is no provider.
sendPushToTokensOrError(messaging, tokens, outcome) ==
  IF ~messaging.available \/ FirstSupported(messaging) = "none" \/ outcome.throws
  THEN [NoSend("error") EXCEPT !.method = FirstSupported(messaging)]
  ELSE [kind |-> "summary",
        method |-> FirstSupported(messaging),
        successCount |-> CountCodes(outcome.codes, {"ok"}),
        failureCount |-> CountCodes(outcome.codes, OutcomeCodes \ {"ok"}),
        failedTokens |-> FailedTokens(tokens, outcome.codes)]

\* sendPushToTokens(tokens, payload): kind is "note" (nothing sent), "error"
\* (the provider call threw) or "summary"; method is the shape that was called.
sendPushToTokens(messaging, tokens, outcome) ==
  IF ~messaging.available THEN NoSend("note")
  ELSE IF FirstSupported(messaging) = "none" THEN NoSend("note")
  ELSE IF outcome.throws
  THEN [NoSend("error") EXCEPT !.method = FirstSupported(messaging)]
  ELSE [kind |-> "summary",
        method |-> FirstSupported(messaging),
        successCount |-> CountCodes(outcome.codes, {"ok"}),
        failureCount |-> CountCodes(outcome.codes, OutcomeCodes \ {"ok"}),
        failedTokens |-> FailedTokens(tokens, outcome.codes)]

\* The outcomes that can be told apart for a token list: none matter when no
\* call is made, the codes do not matter when the call throws, and the pruning
\* update is only attempted when a token was reported dead.  messaging.codes
\* are the codes the provider behind admin.messaging() answers with, and
\* messaging.mayThrow tells whether its calls can throw.
Outcomes(messaging, tokens) ==
  IF tokens = <<>> \/ ~messaging.available \/ FirstSupported(messaging) = "none"
  THEN {OutcomeOf(FALSE, [i \in 1..Len(tokens) |-> "ok"], FALSE)}
  ELSE {OutcomeOf(TRUE, [i \in 1..Len(tokens) |-> "ok"], FALSE) : x \in {m \in {messaging} : m.mayThrow}}
       \cup {OutcomeOf(FALSE, c, FALSE) : c \in [1..Len(tokens) -> messaging.codes]}
       \cup {OutcomeOf(FALSE, c, TRUE) :
               c \in {d \in [1..Len(tokens) -> messaging.codes] : HasDead(d)}}

RECURSIVE UsableTokens(_)
\* for (const t of arr) if (typeof t === "string" && t.trim().length > 0) tokens.push(t)
UsableTokens(arr) ==
  IF arr = <<>> THEN <<>>
  ELSE (IF IsString(Head(arr)) /\ Trim(Head(arr).s) # <<>> THEN <<Head(arr)>> ELSE <<>>)
       \o UsableTokens(Tail(arr))

UsableToken(v) == IsString(v) /\ Trim(v.s) # <<>>

\* add-bookings: the business's fcmTokens, else the owner's single fcmToken
BusinessTokensForCreate(biz, owner) ==
  LET own == UsableTokens(biz.fcmTokens) IN
  IF own # <<>> THEN own
  ELSE IF UsableToken(owner.fcmToken) THEN <<owner.fcmToken>> ELSE <<>>

\* cancel-booking: the business's fcmTokens, else the owner's fcmTokens, else the owner's fcmToken
ProviderTokensForCancel(biz, owner) ==
  LET own == UsableTokens(biz.fcmTokens) IN
  IF own # <<>> THEN own
  ELSE
    LET arr == IF owner.hasTokensArray THEN UsableTokens(owner.fcmTokens) ELSE <<>> IN
    IF (~owner.hasTokensArray \/ arr = <<>>) /\ UsableToken(owner.fcmToken)
    THEN Append(arr, owner.fcmToken) ELSE arr

\* cancel-booking: the client's fcmTokens, else the client's fcmToken
ClientTokensForCancel(clientDoc) ==
  LET arr == IF clientDoc.hasTokensArray THEN UsableTokens(clientDoc.fcmTokens) ELSE <<>> IN
  IF (~clientDoc.hasTokensArray \/ arr = <<>>) /\ UsableToken(clientDoc.fcmToken)
  THEN Append(arr, clientDoc.fcmToken) ELSE arr

\* accept, reject, track: the client's fcmTokens; the single fcmToken only
\* when the document has no fcmTokens field at all
ClientTokens(clientDoc) ==
  LET arr == IF clientDoc.hasTokensArray THEN UsableTokens(clientDoc.fcmTokens) ELSE <<>> IN
  IF ~clientDoc.hasTokensArray /\ UsableToken(clientDoc.fcmToken)
  THEN Append(arr, clientDoc.fcmToken) ELSE arr

InSeq(x, seq) == \E i \in 1..Len(seq) : seq[i] = x

RECURSIVE Pull(_, _)
\* { $pull: { fcmTokens: { $in: dead } } }
Pull(arr, dead) ==
  IF arr = <<>> THEN <<>>
  ELSE (IF InSeq(Head(arr), dead) THEN <<>> ELSE <<Head(arr)>>) \o Pull(Tail(arr), dead)

\* Pruning of a client document after a dispatch: $pull from the array when
\* there is one, else $unset of the single token when it is among the dead.
PruneClient(clientDoc, dead) ==
  IF dead = <<>> THEN clientDoc
  ELSE IF clientDoc.hasTokensArray
  THEN [clientDoc EXCEPT !.fcmTokens = Pull(clientDoc.fcmTokens, dead)]
  ELSE IF Truthy(clientDoc.fcmToken) /\ InSeq(clientDoc.fcmToken, dead)
  THEN [clientDoc EXCEPT !.fcmToken = Undef]
  ELSE clientDoc

\* Pruning of the business document after a dispatch.
PruneBusiness(biz, dead) ==
  IF dead = <<>> THEN biz ELSE [biz EXCEPT !.fcmTokens = Pull(biz.fcmTokens, dead)]

(***************************************************************************)
(* Stored data and request inputs.                                         *)
(***************************************************************************)
Clients == {"c1", "c2"}
OwnerId == "owner"
UserIds == Clients \cup {OwnerId}
BusinessId == "b1"
ServiceId == "s1"

\* Identifiers a request can carry besides the stored ones: "" is a missing
\* field, "bad" is not a valid ObjectId, "ghost" is valid but matches nothing.
Missing == ""
BadId == "bad"
GhostId == "ghost"

T1 == Str(<<"t", "1">>)
T2 == Str(<<"t", "2">>)
T3 == Str(<<"t", "3">>)
T4 == Str(<<"t", "4">>)
Blank == Str(<<" ">>)

UserDoc(hasArr, arr, single) == [hasTokensArray |-> hasArr, fcmTokens |-> arr, fcmToken |-> single]

\* The ServiceOffered document that requests can name.
StoredService == [title |-> Str(<<"C", "u", "t">>), price |-> Num(5), duration |-> Str(<<"1", "h">>)]

Time0900 == Str(<<"0", "9", ":", "0", "0">>)
Time1700 == Str(<<"1", "7", ":", "0", "0">>)
Time2200 == Str(<<"2", "2", ":", "0", "0">>)
Time0200 == Str(<<"0", "2", ":", "0", "0">>)

NoSchedule == [present |-> FALSE, days |-> [k \in DayKeys |-> NoEntry]]

\* Mon 09:00-17:00, Tue closed, Wed overnight 22:00-02:00, Thu as the schema
\* default (open and close null), Sat closed without hours, the other days
\* without an entry.
WeekSchedule ==
  [present |-> TRUE,
   days |-> [k \in DayKeys |->
              CASE k = "Mon" -> DayEntry(Time0900, Time1700, FALSE)
                [] k = "Tue" -> DayEntry(Time0900, Time1700, TRUE)
                [] k = "Wed" -> DayEntry(Time2200, Time0200, FALSE)
                [] k = "Thu" -> DayEntry(Undef, Undef, FALSE)
                [] k = "Sat" -> DayEntry(Undef, Undef, TRUE)
                [] OTHER -> NoEntry]]

Instant(d, h, m) == [valid |-> TRUE, present |-> TRUE, day |-> d, hours |-> h, minutes |-> m]
InvalidDate == [valid |-> FALSE, present |-> TRUE, day |-> 0, hours |-> 0, minutes |-> 0]
NoDate == [valid |-> FALSE, present |-> FALSE, day |-> 0, hours |-> 0, minutes |-> 0]

\* scheduledAt values of the requests: Monday 10:00, Monday 17:00, Tuesday
\* 10:00, Thursday 10:00.
Instants == {Instant(1, 10, 0), Instant(1, 17, 0), Instant(2, 10, 0), Instant(4, 10, 0)}

Name == Str(<<"A", "n", "a">>)
Phone == Str(<<"0", "9", "1">>)
Title == Str(<<"W", "a", "s", "h">>)

NoLocation == [present |-> FALSE, address |-> <<>>, latitude |-> 0, longitude |-> 0]

\* A document of the Location collection (a client's address).
LocationDoc(address, lat, lon, selected) ==
  [address |-> address, latitude |-> lat, longitude |-> lon, selectedLocation |-> selected]

\* The request of the handler being served; fields a route does not read
\* keep these defaults.  at is the handler's position ("responded" once the
\* response is written), doc the document it holds in memory, parties the
\* parties it has still to notify, step the result of the dispatch it has
\* just made, entries the notification results gathered so far and
\* lookupFailed whether its query for the selected address threw.
BaseReq ==
  [op |-> "none", id |-> 0, clientId |-> Missing, businessId |-> Missing, serviceId |-> Missing,
   serviceTitle |-> Undef, servicePrice |-> Undef, serviceDuration |-> Undef,
   scheduledAt |-> NoDate, contactName |-> Undef, contactPhone |-> Undef,
   status |-> Undef, message |-> Undef, reason |-> Undef,
   at |-> "responded", doc |-> <<>>, parties |-> <<>>, step |-> <<>>, entries |-> <<>>,
   lookupFailed |-> FALSE]

NoResp == [code |-> 0, message |-> "", id |-> 0, booking |-> <<>>, allowed |-> <<>>, notification |-> <<>>]

VARIABLES
  bookings,   \* the Booking collection, in order of creation; the id is the index
  business,   \* the BusinessInfo document: owner, fcmTokens, operatingSchedule
  users,      \* the token fields of the user documents
  locations,  \* the Location documents of every client
  services,   \* the ServiceOffered document: title, price, duration
  messaging,  \* admin.messaging(): available or not, and the send methods it has
  now,        \* the clock read by new Date()
  req,        \* the request being served; op "none" when the server is idle
  resp,       \* its response
  calls       \* the provider calls made while serving it

vars == <<bookings, business, users, locations, services, messaging, now, req, resp, calls>>

NoMessaging == [available |-> FALSE, methods |-> {}, codes |-> {"ok"}, mayThrow |-> FALSE]
Messaging(methods, codes, mayThrow) ==
  [available |-> TRUE, methods |-> methods, codes |-> codes, mayThrow |-> mayThrow]

\* A provider that delivers to every token.
HealthyMessaging == Messaging({"sendMulticast", "sendToDevice"}, {"ok"}, FALSE)

Init ==
  /\ bookings = <<>>
  /\ business = [clientId |-> OwnerId, fcmTokens |-> <<T1>>, operatingSchedule |-> WeekSchedule]
  /\ users = [u \in UserIds |->
                CASE u = "c1" -> UserDoc(TRUE, <<T2>>, Undef)
                  [] u = "c2" -> UserDoc(FALSE, <<>>, T4)
                  [] OTHER -> UserDoc(FALSE, <<>>, T4)]
  /\ locations = [c \in Clients |->
                    IF c = "c1"
                    THEN <<LocationDoc(Str(<<"H", "o", "m", "e">>), Num(7), Num(9), TRUE)>>
                    ELSE <<>>]
  /\ messaging \in {NoMessaging, HealthyMessaging}
  /\ now = 0
  /\ services = StoredService
  /\ req = BaseReq
  /\ resp = NoResp
  /\ calls = <<>>

(***************************************************************************)
(* Notification step of the handlers: token list, dispatch, pruning.       *)
(* The result carries the notification entry of the response, the provider *)
(* calls made and the owning document after pruning.                       *)
(***************************************************************************)
NotificationEntry(party, r, removed, removeError) ==
  [party |-> party, kind |-> r.kind, method |-> r.method,
   successCount |-> r.successCount, failureCount |-> r.failureCount,
   removed |-> removed, removeError |-> removeError]

ProviderCalls(party, r, tokens) ==
  IF r.method = "none" THEN <<>> ELSE <<[party |-> party, method |-> r.method, tokens |-> tokens]>>

\* A notification block that would call the helper whatever the token list.
NotifyClientUnguarded(clientDoc, tokens, outcome, reportsError) ==
  LET r == sendPushToTokens(messaging, tokens, outcome) IN
  [entry |-> NotificationEntry("client", r, <<>>, FALSE),
   calls |-> <<[party |-> "client", method |-> r.method, tokens |-> tokens]>>,
   doc |-> clientDoc]

\* Client side: accept, reject, track and the client half of cancel-booking.
\* reportsError: the handler records a removeError when the pruning update
\* throws (accept, reject, track) or only logs it (cancel).
NotifyClient(clientDoc, tokens, outcome, reportsError) ==
  IF tokens = <<>>
  THEN [entry |-> NotificationEntry("client", NoSend("note"), <<>>, FALSE),
        calls |-> <<>>, doc |-> clientDoc]
  ELSE
    LET r == sendPushToTokens(messaging, tokens, outcome)
        dead == r.failedTokens
        prunes == /\ dead # <<>>
                  /\ \/ clientDoc.hasTokensArray
                     \/ Truthy(clientDoc.fcmToken) /\ InSeq(clientDoc.fcmToken, dead)
    IN [entry |-> NotificationEntry("client", r,
                     IF prunes /\ ~outcome.pullFails THEN dead ELSE <<>>,
                     prunes /\ outcome.pullFails /\ reportsError),
        calls |-> ProviderCalls("client", r, tokens),
        doc |-> IF prunes /\ ~outcome.pullFails THEN PruneClient(clientDoc, dead) ELSE clientDoc]

\* Business side: add-bookings and the provider half of cancel-booking.
NotifyBusiness(biz, tokens, outcome, reportsError) ==
  IF tokens = <<>>
  THEN [entry |-> NotificationEntry("business", NoSend("note"), <<>>, FALSE),
        calls |-> <<>>, doc |-> biz]
  ELSE
    LET r == sendPushToTokens(messaging, tokens, outcome)
        dead == r.failedTokens
        prunes == dead # <<>>
    IN [entry |-> NotificationEntry("business", r,
                     IF prunes /\ ~outcome.pullFails THEN dead ELSE <<>>,
                     prunes /\ outcome.pullFails /\ reportsError),
        calls |-> ProviderCalls("business", r, tokens),
        doc |-> IF prunes /\ ~outcome.pullFails THEN PruneBusiness(biz, dead) ELSE biz]

(***************************************************************************)
(* Responses.                                                              *)
(***************************************************************************)
\* No request is being served.
Idle == req.op = "none"

ErrorResp(code, message) == [NoResp EXCEPT !.code = code, !.message = message]

\* A request that ends in an error response: nothing stored changes.
Fail(r, code, message) ==
  /\ req' = r
  /\ resp' = ErrorResp(code, message)
  /\ calls' = <<>>
  /\ UNCHANGED <<bookings, business, users, locations, messaging, services, now>>

\* A handler that would save the document before testing its status.
ConflictAfterSave(r, message, id) ==
  /\ req' = r
  /\ resp' = [ErrorResp(409, message) EXCEPT !.id = id]
  /\ calls' = <<>>
  /\ bookings' = [bookings EXCEPT ![id].updatedAt = now + 1]
  /\ now' = now + 1
  /\ UNCHANGED <<business, users, locations, messaging, services>>

\* A 409 names the current status of the booking.
Conflict(r, message, id) ==
  /\ req' = r
  /\ resp' = [ErrorResp(409, message) EXCEPT !.id = id]
  /\ calls' = <<>>
  /\ UNCHANGED <<bookings, business, users, locations, messaging, services, now>>

\* The final states tested by accept, reject and cancel-booking.
FinalStatuses == {"cancelled", "completed", "rejected"}

\* The two guards of track: cancelled or rejected, then completed.
TrackBlocked(status) == status \in {"cancelled", "rejected"} \/ status = "completed"

Completed == <<"c", "o", "m", "p", "l", "e", "t", "e", "d">>

(***************************************************************************)
(* Guards and mutations of the four transition handlers.                   *)
(***************************************************************************)
\* Booking ids of the requests: 0 is not a valid ObjectId, an id above the
\* number of stored bookings matches no document.
RequestIds == 0..(MaxBookings + 1)

\* A guard that forgets the completed bookings.
AcceptRefusedUnlessCompleted(status) == status \in {"cancelled", "rejected"}

AcceptRefused(status) == status \in FinalStatuses

\* A handler without the already-confirmed branch.
AlreadyConfirmedIgnored(status) == FALSE

AlreadyConfirmed(status) == status = "confirmed"

\* A confirmation that would close the booking at once.
AcceptMutationCompleting(booking, t) ==
  [booking EXCEPT !.status = "completed",
                  !.rejectionReason = IF Truthy(@) THEN Undef ELSE @,
                  !.updatedAt = t]

\* A confirmation that would drop the location of the booking.
AcceptMutationDroppingLocation(booking, t) ==
  [booking EXCEPT !.status = "confirmed",
                  !.rejectionReason = IF Truthy(@) THEN Undef ELSE @,
                  !.updatedAt = t,
                  !.location = NoLocation]

AcceptMutation(booking, t) ==
  [booking EXCEPT !.status = "confirmed",
                  !.rejectionReason = IF Truthy(@) THEN Undef ELSE @,
                  !.updatedAt = t]

RejectRefused(status) == status \in FinalStatuses

\* A mutation that stores whatever reason the request carries.
RejectMutationAsSupplied(booking, reason, t) ==
  [booking EXCEPT !.status = "rejected",
                  !.rejectionReason = IF Truthy(reason) /\ IsString(reason) THEN reason ELSE Undef,
                  !.updatedAt = t]

RejectMutation(booking, reason, t) ==
  [booking EXCEPT !.status = "rejected",
                  !.rejectionReason =
                     IF Truthy(reason) /\ IsString(reason) /\ Trim(reason.s) # <<>>
                     THEN Str(Trim(reason.s)) ELSE Undef,
                  !.updatedAt = t]

\* A handler without the ownership check.
OwnsBookingUnchecked(booking, clientId) == TRUE

OwnsBooking(booking, clientId) == booking.clientId = clientId

\* A guard that lets only confirmed bookings be cancelled.
CancelRefusedUnlessConfirmed(status) == status # "confirmed"

CancelRefused(status) == status \in FinalStatuses

HistoryEntry(status, message, t) == [status |-> status, message |-> message, timestamp |-> t]

CancelledLabel == <<"C", "a", "n", "c", "e", "l", "l", "e", "d">>
CancelledMessage == <<"B", "o", "o", "k", "i", "n", "g", " ", "c", "a", "n", "c", "e", "l", "l", "e", "d",
                      " ", "b", "y", " ", "c", "l", "i", "e", "n", "t">>

\* A cancel that would keep only its own entry in the history.
CancelMutationLatestOnly(booking, t) ==
  [booking EXCEPT !.status = "cancelled",
                  !.updatedAt = t,
                  !.trackingHistory = <<HistoryEntry(CancelledLabel, CancelledMessage, t)>>]

\* A cancel that would leave the history as it is.
CancelMutationStatusOnly(booking, t) ==
  [booking EXCEPT !.status = "cancelled", !.updatedAt = t]

CancelMutation(booking, t) ==
  [booking EXCEPT !.status = "cancelled",
                  !.updatedAt = t,
                  !.trackingHistory = Append(@, HistoryEntry(CancelledLabel, CancelledMessage, t))]

\* The label test of track: a non-blank string.
ValidLabel(status) == Truthy(status) /\ IsString(status) /\ Trim(status.s) # <<>>

\* message.trim() when the message is a string, else ""
MessageText(message) == IF IsString(message) THEN Trim(message.s) ELSE <<>>

\* A mutation that compares the label with "completed" as it was typed.
TrackMutationCaseSensitive(booking, status, message, t) ==
  LET statusLabel == Trim(status.s)
  IN [booking EXCEPT
        !.tracking = Str(statusLabel),
        !.trackingMessage = Str(MessageText(message)),
        !.trackingHistory = Append(@, HistoryEntry(statusLabel, MessageText(message), t)),
        !.status = IF statusLabel = Completed THEN "completed"
                   ELSE IF @ = "confirmed" THEN @ ELSE "confirmed",
        !.updatedAt = t]

\* A mutation that replaces the last entry when it carries the same label.
TrackMutationDeduplicated(booking, status, message, t) ==
  LET statusLabel == Trim(status.s)
      statusLower == ToLowerCase(statusLabel)
      entry == HistoryEntry(statusLabel, MessageText(message), t)
      h == booking.trackingHistory
  IN [booking EXCEPT
        !.tracking = Str(statusLabel),
        !.trackingMessage = Str(MessageText(message)),
        !.trackingHistory = IF h # <<>> /\ h[Len(h)].status = statusLabel
                            THEN [h EXCEPT ![Len(h)] = entry] ELSE Append(h, entry),
        !.status = IF statusLower = Completed THEN "completed"
                   ELSE IF @ = "confirmed" THEN @ ELSE "confirmed",
        !.updatedAt = t]

\* A tracking update that would copy the title of the service again.
TrackMutationRefreshingService(booking, status, message, t) ==
  LET statusLabel == Trim(status.s)
      statusLower == ToLowerCase(statusLabel)
  IN [booking EXCEPT
        !.tracking = Str(statusLabel),
        !.trackingMessage = Str(MessageText(message)),
        !.trackingHistory = Append(@, HistoryEntry(statusLabel, MessageText(message), t)),
        !.status = IF statusLower = Completed THEN "completed"
                   ELSE IF @ = "confirmed" THEN @ ELSE "confirmed",
        !.updatedAt = t,
        !.serviceTitle = services.title.s]

\* status is the request's label (a non-blank string), message its message
TrackMutation(booking, status, message, t) ==
  LET statusLabel == Trim(status.s)
      statusLower == ToLowerCase(statusLabel)
  IN [booking EXCEPT
        !.tracking = Str(statusLabel),
        !.trackingMessage = Str(MessageText(message)),
        !.trackingHistory = Append(@, HistoryEntry(statusLabel, MessageText(message), t)),
        !.status = IF statusLower = Completed THEN "completed"
                   ELSE IF @ = "confirmed" THEN @ ELSE "confirmed",
        !.updatedAt = t]

\* The response of a handler that saved booking id and notified.
\* A handler that would answer 500 when a notification entry is not a
\* delivery summary without failures.
SuccessOnlyIfDelivered(code, message, id, doc, notification) ==
  IF \E i \in 1..Len(notification) :
       \/ notification[i].kind = "error"
       \/ notification[i].failureCount > 0
       \/ notification[i].removeError
  THEN ErrorResp(500, "Server error")
  ELSE [NoResp EXCEPT !.code = code, !.message = message, !.id = id,
                      !.booking = <<doc>>, !.notification = notification]

Success(code, message, id, doc, notification) ==
  [NoResp EXCEPT !.code = code, !.message = message, !.id = id,
                 !.booking = <<doc>>, !.notification = notification]

(***************************************************************************)
(* POST /:id/accept                                                        *)
(***************************************************************************)
\* A handler written as one update query, Booking.findByIdAndUpdate(id,
\* { status: "confirmed" }): no guard, and no validate hook, which update
\* queries do not run.
AcceptByUpdate(id) ==
  LET r == [BaseReq EXCEPT !.op = "accept", !.id = id] IN
  /\ Idle
  /\ now < MaxTime
  /\ IF id = 0 THEN Fail(r, 400, "Invalid booking id")
     ELSE IF id > Len(bookings) THEN Fail(r, 404, "Booking not found")
     ELSE
       LET doc == [bookings[id] EXCEPT !.status = "confirmed", !.updatedAt = now + 1] IN
       /\ bookings' = [bookings EXCEPT ![id] = doc]
       /\ now' = now + 1
       /\ req' = r
       /\ resp' = Success(200, "Booking confirmed.", id, doc, <<>>)
       /\ calls' = <<>>
       /\ UNCHANGED <<business, users, locations, messaging, services>>

Accept(id) ==
  LET r == [BaseReq EXCEPT !.op = "accept", !.id = id] IN
  /\ Idle
  /\ now < MaxTime
  /\ IF id = 0 THEN Fail(r, 400, "Invalid booking id")
     ELSE IF id > Len(bookings) THEN Fail(r, 404, "Booking not found")
     ELSE
       LET booking == bookings[id] IN
       IF AcceptRefused(booking.status)
       THEN Conflict(r, "Cannot accept booking with status", id)
       ELSE IF AlreadyConfirmed(booking.status)
       THEN /\ req' = r
            /\ resp' = Success(200, "Booking already confirmed", id, booking, <<>>)
            /\ calls' = <<>>
            /\ UNCHANGED <<bookings, business, users, locations, messaging, services, now>>
       ELSE
         LET doc == AcceptMutation(booking, now + 1) IN
         IF ~SaveOk(doc) THEN Fail(r, 500, "Server error")
         ELSE
           LET tokens == ClientTokens(users[doc.clientId]) IN
           \E outcome \in Outcomes(messaging, tokens) :
             LET n == NotifyClient(users[doc.clientId], tokens, outcome, TRUE) IN
             /\ bookings' = [bookings EXCEPT ![id] = doc]
             /\ users' = [users EXCEPT ![doc.clientId] = n.doc]
             /\ now' = now + 1
             /\ req' = r
             /\ resp' = Success(200, "Booking confirmed.", id, doc, <<n.entry>>)
             /\ calls' = n.calls
             /\ UNCHANGED <<business, locations, messaging, services>>

(***************************************************************************)
(* POST /reject/:id                                                        *)
(***************************************************************************)
Reasons == {Undef, Blank, Str(<<" ", "l", "a", "t", "e", " ">>), Num(5)}

\* Ids of the requests whose other inputs are varied, and ids that only reach
\* the 400 and 404 responses.
StoredIds == 1..MaxBookings
UnknownIds == {0, MaxBookings + 1}

Reject(id, reason) ==
  LET r == [BaseReq EXCEPT !.op = "reject", !.id = id, !.reason = reason] IN
  /\ Idle
  /\ now < MaxTime
  /\ IF id = 0 THEN Fail(r, 400, "Invalid booking id")
     ELSE IF id > Len(bookings) THEN Fail(r, 404, "Booking not found")
     ELSE
       LET booking == bookings[id] IN
       IF RejectRefused(booking.status)
       THEN Conflict(r, "Cannot reject booking with status", id)
       ELSE
         LET doc == RejectMutation(booking, reason, now + 1) IN
         IF ~SaveOk(doc) THEN Fail(r, 500, "Server error")
         ELSE
           LET tokens == ClientTokens(users[doc.clientId]) IN
           \E outcome \in Outcomes(messaging, tokens) :
             LET n == NotifyClient(users[doc.clientId], tokens, outcome, TRUE) IN
             /\ bookings' = [bookings EXCEPT ![id] = doc]
             /\ users' = [users EXCEPT ![doc.clientId] = n.doc]
             /\ now' = now + 1
             /\ req' = r
             /\ resp' = Success(200, "Booking rejected.", id, doc, <<n.entry>>)
             /\ calls' = n.calls
             /\ UNCHANGED <<business, locations, messaging, services>>

(***************************************************************************)
(* POST /:id/cancel-booking                                                *)
(***************************************************************************)
CancelClientIds == Clients \cup {Missing, BadId, GhostId}

\* A cancel-booking that would look at the status before the owner.
CancelStatusFirst(id, clientId) ==
  LET r == [BaseReq EXCEPT !.op = "cancel", !.id = id, !.clientId = clientId] IN
  /\ Idle
  /\ now < MaxTime
  /\ IF id = 0 THEN Fail(r, 400, "Invalid booking id")
     ELSE IF clientId \in {Missing, BadId} THEN Fail(r, 400, "Valid clientId is required")
     ELSE IF id > Len(bookings) THEN Fail(r, 404, "Booking not found")
     ELSE
       LET booking == bookings[id] IN
       IF CancelRefused(booking.status)
       THEN Conflict(r, "Cannot cancel booking with status", id)
       ELSE IF ~OwnsBooking(booking, clientId)
       THEN Fail(r, 403, "Not authorized to cancel this booking")
       ELSE
         LET doc == CancelMutation(booking, now + 1) IN
         IF ~SaveOk(doc) THEN Fail(r, 500, "Server error")
         ELSE
           LET providerTokens == ProviderTokensForCancel(business, users[business.clientId])
               clientTokens == ClientTokensForCancel(users[doc.clientId])
           IN
           \E provOutcome \in Outcomes(messaging, providerTokens),
              clientOutcome \in Outcomes(messaging, clientTokens) :
             LET p == NotifyBusiness(business, providerTokens, provOutcome, FALSE)
                 c == NotifyClient(users[doc.clientId], clientTokens, clientOutcome, FALSE)
             IN
             /\ bookings' = [bookings EXCEPT ![id] = doc]
             /\ business' = p.doc
             /\ users' = [users EXCEPT ![doc.clientId] = c.doc]
             /\ now' = now + 1
             /\ req' = r
             /\ resp' = Success(200, "Booking cancelled", id, doc, <<p.entry, c.entry>>)
             /\ calls' = p.calls \o c.calls
             /\ UNCHANGED <<locations, messaging, services>>

Cancel(id, clientId) ==
  LET r == [BaseReq EXCEPT !.op = "cancel", !.id = id, !.clientId = clientId] IN
  /\ Idle
  /\ now < MaxTime
  /\ IF id = 0 THEN Fail(r, 400, "Invalid booking id")
     ELSE IF clientId \in {Missing, BadId} THEN Fail(r, 400, "Valid clientId is required")
     ELSE IF id > Len(bookings) THEN Fail(r, 404, "Booking not found")
     ELSE
       LET booking == bookings[id] IN
       IF ~OwnsBooking(booking, clientId)
       THEN Fail(r, 403, "Not authorized to cancel this booking")
       ELSE IF CancelRefused(booking.status)
       THEN Conflict(r, "Cannot cancel booking with status", id)
       ELSE
         LET doc == CancelMutation(booking, now + 1) IN
         IF ~SaveOk(doc) THEN Fail(r, 500, "Server error")
         ELSE
           LET providerTokens == ProviderTokensForCancel(business, users[business.clientId])
               clientTokens == ClientTokensForCancel(users[doc.clientId])
           IN
           \E provOutcome \in Outcomes(messaging, providerTokens),
              clientOutcome \in Outcomes(messaging, clientTokens) :
             LET p == NotifyBusiness(business, providerTokens, provOutcome, FALSE)
                 c == NotifyClient(users[doc.clientId], clientTokens, clientOutcome, FALSE)
             IN
             /\ bookings' = [bookings EXCEPT ![id] = doc]
             /\ business' = p.doc
             /\ users' = [users EXCEPT ![doc.clientId] = c.doc]
             /\ now' = now + 1
             /\ req' = r
             /\ resp' = Success(200, "Booking cancelled", id, doc, <<p.entry, c.entry>>)
             /\ calls' = p.calls \o c.calls
             /\ UNCHANGED <<locations, messaging, services>>

(***************************************************************************)
(* POST /:id/track                                                         *)
(***************************************************************************)
Arrived == Str(<<"A", "r", "r", "i", "v", "e", "d", " ">>)
Hi == Str(<<" ", "h", "i", " ">>)

\* The (status, message) pairs of the track requests.
TrackInputs ==
  {<<Undef, Undef>>, <<Blank, Undef>>, <<Num(5), Undef>>,
   <<Arrived, Undef>>, <<Arrived, Hi>>,
   <<Str(<<"C", "O", "M", "P", "L", "E", "T", "E", "D">>), Undef>>,
   <<Str(<<" ", "C", "o", "m", "p", "l", "e", "t", "e", "d", " ">>), Hi>>}

Track(id, status, message) ==
  LET r == [BaseReq EXCEPT !.op = "track", !.id = id, !.status = status, !.message = message] IN
  /\ Idle
  /\ now < MaxTime
  /\ IF id = 0 THEN Fail(r, 400, "Invalid booking id")
     ELSE IF ~ValidLabel(status)
     THEN Fail(r, 400, "Missing 'status' in request body.")
     ELSE IF id > Len(bookings) THEN Fail(r, 404, "Booking not found")
     ELSE
       LET booking == bookings[id] IN
       IF TrackBlocked(booking.status)
       THEN Conflict(r, "Cannot update tracking for booking with status", id)
       ELSE
         LET doc == TrackMutation(booking, status, message, now + 1) IN
         IF ~SaveOk(doc) THEN Fail(r, 500, "Server error")
         ELSE
           LET tokens == ClientTokens(users[doc.clientId]) IN
           \E outcome \in Outcomes(messaging, tokens) :
             LET n == NotifyClient(users[doc.clientId], tokens, outcome, TRUE) IN
             /\ bookings' = [bookings EXCEPT ![id] = doc]
             /\ users' = [users EXCEPT ![doc.clientId] = n.doc]
             /\ now' = now + 1
             /\ req' = r
             /\ resp' = Success(200, "Tracking updated.", id, doc, <<n.entry>>)
             /\ calls' = n.calls
             /\ UNCHANGED <<business, locations, messaging, services>>

(***************************************************************************)
(* POST /add-bookings                                                      *)
(***************************************************************************)
ValidObjectId(x) == x \notin {Missing, BadId}

\* title, price and duration after the lookup of the service reference
ResolveService(r) ==
  LET found == r.serviceId = ServiceId IN
  [title |-> IF found /\ ~Truthy(r.serviceTitle) THEN services.title ELSE r.serviceTitle,
   price |-> IF found /\ r.servicePrice.t = "undefined" THEN services.price ELSE r.servicePrice,
   duration |-> IF found /\ ~Truthy(r.serviceDuration) THEN services.duration ELSE r.serviceDuration]

\* Location.findOne({ clientId, selectedLocation: true }): index of the first
\* selected address of the client, 0 when there is none
RECURSIVE FirstSelected(_, _)
FirstSelected(locs, i) ==
  IF i > Len(locs) THEN 0
  ELSE IF locs[i].selectedLocation THEN i ELSE FirstSelected(locs, i + 1)

\* The location copied into a new booking; lookupFails: the query throws.
LocationSnapshot(locs, lookupFails) ==
  IF lookupFails \/ FirstSelected(locs, 1) = 0 THEN NoLocation
  ELSE
    LET sel == locs[FirstSelected(locs, 1)]
        addr == IF IsString(sel.address) THEN Trim(sel.address.s) ELSE <<>>
    IN IF addr # <<>> /\ sel.latitude.t = "number" /\ sel.longitude.t = "number"
       THEN [present |-> TRUE, address |-> addr,
             latitude |-> sel.latitude.n, longitude |-> sel.longitude.n]
       ELSE NoLocation

\* A document built as already confirmed.
NewBookingConfirmed(r, svc, location, t) ==
  [clientId |-> r.clientId,
   businessId |-> r.businessId,
   serviceId |-> r.serviceId,
   serviceTitle |-> Trim(svc.title.s),
   servicePrice |-> svc.price,
   serviceDuration |-> IF Truthy(svc.duration) THEN svc.duration ELSE Undef,
   scheduledAt |-> r.scheduledAt,
   contactName |-> Trim(r.contactName.s),
   contactPhone |-> Trim(r.contactPhone.s),
   status |-> "confirmed",
   paymentStatus |-> "pending",
   location |-> location,
   rejectionReason |-> Undef,
   tracking |-> Undef,
   trackingMessage |-> Undef,
   trackingHistory |-> <<>>,
   createdAt |-> t,
   updatedAt |-> t]

\* new Booking({...}) of add-bookings, with the schema's trim setters applied
NewBooking(r, svc, location, t) ==
  [clientId |-> r.clientId,
   businessId |-> r.businessId,
   serviceId |-> r.serviceId,
   serviceTitle |-> Trim(svc.title.s),
   servicePrice |-> svc.price,
   serviceDuration |-> IF Truthy(svc.duration) THEN svc.duration ELSE Undef,
   scheduledAt |-> r.scheduledAt,
   contactName |-> Trim(r.contactName.s),
   contactPhone |-> Trim(r.contactPhone.s),
   status |-> "pending",
   paymentStatus |-> "pending",
   location |-> location,
   rejectionReason |-> Undef,
   tracking |-> Undef,
   trackingMessage |-> Undef,
   trackingHistory |-> <<>>,
   createdAt |-> t,
   updatedAt |-> t]

ValidCreate(c, at) ==
  [BaseReq EXCEPT !.op = "create", !.clientId = c, !.businessId = BusinessId,
                  !.serviceTitle = Title, !.scheduledAt = at,
                  !.contactName = Name, !.contactPhone = Phone]

\* The requests of add-bookings: the well-formed ones for every client and
\* for every instant, and one request per way of being malformed.
CreateRequests ==
  LET base == ValidCreate("c1", Instant(1, 10, 0)) IN
  {ValidCreate(c, Instant(1, 10, 0)) : c \in Clients}
  \cup {ValidCreate("c1", at) : at \in Instants}
  \cup {[base EXCEPT !.clientId = x] : x \in {BadId, GhostId}}
  \cup {[base EXCEPT !.businessId = GhostId]}
  \cup {[base EXCEPT !.serviceId = x] : x \in {ServiceId, BadId}}
  \cup {[base EXCEPT !.serviceId = ServiceId, !.serviceTitle = Undef]}
  \cup {[base EXCEPT !.serviceId = ServiceId, !.servicePrice = Num(9),
                     !.serviceDuration = Str(<<"2", "h">>)]}
  \cup {[base EXCEPT !.scheduledAt = InvalidDate]}
  \cup {[base EXCEPT !.contactName = Blank]}

ScheduleDenied(r, message) ==
  /\ req' = r
  /\ resp' = [ErrorResp(400, message) EXCEPT
                !.allowed = formatDayAllowedRangesForKey(business.operatingSchedule,
                                                         weekdayIndexToKey(r.scheduledAt.day))]
  /\ calls' = <<>>
  /\ UNCHANGED <<bookings, business, users, locations, messaging, services, now>>

Create(r) ==
  /\ Idle
  /\ now < MaxTime
  /\ Len(bookings) < MaxBookings
  /\ IF \/ r.clientId = Missing \/ r.businessId = Missing \/ ~Truthy(r.serviceTitle)
        \/ ~r.scheduledAt.present \/ ~Truthy(r.contactName) \/ ~Truthy(r.contactPhone)
     THEN Fail(r, 400, "Missing required booking fields.")
     ELSE IF ~ValidObjectId(r.clientId) \/ ~ValidObjectId(r.businessId)
     THEN Fail(r, 400, "Invalid clientId or businessId.")
     ELSE IF r.serviceId # Missing /\ ~ValidObjectId(r.serviceId)
     THEN Fail(r, 400, "Invalid serviceId.")
     ELSE IF r.clientId \notin UserIds THEN Fail(r, 404, "Client not found.")
     ELSE IF r.businessId # BusinessId THEN Fail(r, 404, "Business not found.")
     ELSE IF ~r.scheduledAt.valid
     THEN Fail(r, 400, "scheduledAt must be a valid date/time string.")
     ELSE IF ScheduleCheck(business.operatingSchedule, r.scheduledAt) # "ok"
     THEN ScheduleDenied(r, ScheduleCheck(business.operatingSchedule, r.scheduledAt))
     ELSE
       \E lookupFails \in BOOLEAN :
         LET doc == NewBooking(r, ResolveService(r),
                               LocationSnapshot(locations[r.clientId], lookupFails), now + 1)
         IN
         IF ~SaveOk(doc) THEN Fail(r, 500, "Server error.")
         ELSE
           LET tokens == BusinessTokensForCreate(business, users[business.clientId]) IN
           \E outcome \in Outcomes(messaging, tokens) :
             LET n == NotifyBusiness(business, tokens, outcome, TRUE) IN
             /\ bookings' = Append(bookings, doc)
             /\ business' = n.doc
             /\ now' = now + 1
             /\ req' = [r EXCEPT !.lookupFailed = lookupFails]
             /\ resp' = Success(201, "Booking created.", Len(bookings) + 1, doc, <<n.entry>>)
             /\ calls' = n.calls
             /\ UNCHANGED <<users, locations, messaging, services>>

(***************************************************************************)
(* res.status(...).json(...): the response leaves and the request ends.    *)
(***************************************************************************)
Deliver ==
  /\ ~Idle
  /\ req.at = "responded"
  /\ req' = BaseReq
  /\ resp' = NoResp
  /\ calls' = <<>>
  /\ UNCHANGED <<bookings, business, users, locations, messaging, services, now>>

(***************************************************************************)
(* Requests are served one at a time.                                      *)
(***************************************************************************)
Next ==
  \/ Deliver
  \/ \E r \in CreateRequests : Create(r)
  \/ \E id \in RequestIds : Accept(id)
  \/ \E id \in StoredIds, reason \in Reasons : Reject(id, reason)
  \/ \E id \in UnknownIds : Reject(id, Undef)
  \/ \E id \in StoredIds, clientId \in Clients : Cancel(id, clientId)
  \/ \E id \in UnknownIds \cup {1}, clientId \in CancelClientIds : Cancel(id, clientId)
  \/ \E id \in StoredIds, in \in TrackInputs : Track(id, in[1], in[2])
  \/ \E id \in UnknownIds : Track(id, Arrived, Undef)

Spec == Init /\ [][Next]_vars

(***************************************************************************)
(* The second router that bookingRoutes.ts defines after the first: it has *)
(* add-bookings, cancel-booking and reject, and no accept and no track.    *)
(***************************************************************************)
\* Its add-bookings checks, builds and saves as the first one does; the
\* dispatch, written inline, tries the same delivery shapes in the same
\* order and prunes on the same codes.
AddBookingsSecond(r) == Create(r)

\* Its reject is the first router's, line for line.
RejectSecond(id, reason) == Reject(id, reason)

\* Its cancel-booking sets the status and updatedAt and nothing else.
CancelMutationSecond(booking, t) ==
  [booking EXCEPT !.status = "cancelled", !.updatedAt = t]

\* Its cancel-booking has the guards of the first and no notification step.
CancelSecond(id, clientId) ==
  LET r == [BaseReq EXCEPT !.op = "cancel", !.id = id, !.clientId = clientId] IN
  /\ Idle
  /\ now < MaxTime
  /\ IF id = 0 THEN Fail(r, 400, "Invalid booking id")
     ELSE IF clientId \in {Missing, BadId} THEN Fail(r, 400, "Valid clientId is required")
     ELSE IF id > Len(bookings) THEN Fail(r, 404, "Booking not found")
     ELSE
       LET booking == bookings[id] IN
       IF ~OwnsBooking(booking, clientId)
       THEN Fail(r, 403, "Not authorized to cancel this booking")
       ELSE IF CancelRefused(booking.status)
       THEN Conflict(r, "Cannot cancel booking with status", id)
       ELSE
         LET doc == CancelMutationSecond(booking, now + 1) IN
         IF ~SaveOk(doc) THEN Fail(r, 500, "Server error")
         ELSE
           /\ bookings' = [bookings EXCEPT ![id] = doc]
           /\ now' = now + 1
           /\ req' = r
           /\ resp' = Success(200, "Booking cancelled", id, doc, <<>>)
           /\ calls' = <<>>
           /\ UNCHANGED <<business, users, locations, messaging, services>>

NextSecond ==
  \/ Deliver
  \/ \E r \in CreateRequests : AddBookingsSecond(r)
  \/ \E id \in RequestIds, reason \in Reasons : RejectSecond(id, reason)
  \/ \E id \in RequestIds, clientId \in CancelClientIds : CancelSecond(id, clientId)

SpecSecond == Init /\ [][NextSecond]_vars

(***************************************************************************)
(* add-bookings against the operating schedules: the business has one of   *)
(* MatcherSchedules, the collection holds bookings made earlier, and       *)
(* well-formed requests arrive for every instant of MatcherInstants.       *)
(***************************************************************************)

\* Day entries whose hours parseTimeToMinutes turns down, one per weekday, an
\* entry whose open carries a suffix after the minutes (Sat) and an entry
\* whose open and close are equal (Sun).
OddSchedule ==
  [present |-> TRUE,
   days |-> [k \in DayKeys |->
              CASE k = "Mon" -> DayEntry(Str(<<"2", "5", ":", "0", "0">>), Time1700, FALSE)
                [] k = "Tue" -> DayEntry(Str(<<"0", "9", "0", "0">>), Time1700, FALSE)
                [] k = "Wed" -> DayEntry(Time0900, Str(<<"1", "7", ":", "6", "0">>), FALSE)
                [] k = "Thu" -> DayEntry(Str(<<"a", "b", ":", "0", "0">>), Time1700, FALSE)
                [] k = "Fri" -> DayEntry(Time0900, Undef, FALSE)
                [] k = "Sat" -> DayEntry(Str(<<"0", "9", ":", "0", "0", "a", "m">>), Time1700, FALSE)
                [] OTHER -> DayEntry(Time0900, Time0900, FALSE)]]

\* operatingSchedule as the schema default leaves it.
DefaultSchedule ==
  [present |-> TRUE, days |-> [k \in DayKeys |-> DayEntry(Undef, Undef, FALSE)]]

MatcherSchedules == {WeekSchedule, OddSchedule, DefaultSchedule, NoSchedule}

\* Times of day around the ends of the windows.
MatcherTimes ==
  {<<0, 0>>, <<1, 0>>, <<1, 59>>, <<2, 0>>, <<8, 59>>, <<9, 0>>, <<12, 0>>,
   <<16, 59>>, <<17, 0>>, <<21, 59>>, <<22, 0>>, <<23, 30>>}

MatcherInstants == {Instant(d, t[1], t[2]) : d \in 0..6, t \in MatcherTimes}

\* A booking made earlier by the client without addresses.
EarlierBooking ==
  LET r == ValidCreate("c2", Instant(1, 10, 0)) IN NewBooking(r, ResolveService(r), NoLocation, 0)

InitMatcher ==
  /\ bookings = [i \in 1..(MaxBookings - 1) |-> EarlierBooking]
  /\ \E schedule \in MatcherSchedules :
       business = [clientId |-> OwnerId, fcmTokens |-> <<T1>>, operatingSchedule |-> schedule]
  /\ users = [u \in UserIds |->
                CASE u = "c1" -> UserDoc(TRUE, <<T2>>, Undef)
                  [] u = "c2" -> UserDoc(FALSE, <<>>, T4)
                  [] OTHER -> UserDoc(FALSE, <<>>, T4)]
  /\ locations = [c \in Clients |-> <<>>]
  /\ messaging = HealthyMessaging
  /\ now = 0
  /\ services = StoredService
  /\ req = BaseReq
  /\ resp = NoResp
  /\ calls = <<>>

NextMatcher ==
  \/ Deliver
  \/ \E at \in MatcherInstants : Create(ValidCreate("c2", at))

SpecMatcher == InitMatcher /\ [][NextMatcher]_vars

(***************************************************************************)
(* Properties of the booking lifecycle.                                    *)
(***************************************************************************)
\* C1: a booking whose status is cancelled, completed or rejected is never
\* changed by any step, and every accept, reject, track (with a label) and
\* cancel-booking by its client that addresses it is answered 409 with the
\* whole collection left as it was and no provider call made.
C1_TerminalRefused ==
  [][\A id \in StoredIds :
       (id <= Len(bookings) /\ bookings[id].status \in {"cancelled", "completed", "rejected"}) =>
         /\ bookings'[id] = bookings[id]
         /\ ( /\ req'.id = id
              /\ \/ req'.op \in {"accept", "reject"}
                 \/ req'.op = "track" /\ ValidLabel(req'.status)
                 \/ req'.op = "cancel" /\ req'.clientId = bookings[id].clientId )
            => (resp'.code = 409 /\ bookings' = bookings /\ calls' = <<>>)]_vars

\* The client of a rejected booking asked to cancel it and got the 409.
C1_Witness ==
  /\ req.op = "cancel" /\ resp.code = 409
  /\ req.id \in 1..Len(bookings)
  /\ bookings[req.id].status = "rejected"
  /\ bookings[req.id].clientId = req.clientId

\* C2: in every reachable state a booking whose status is not rejected has no
\* rejectionReason, and the booking a successful accept answers with is the
\* stored one, without a rejectionReason.
C2_ReasonOnlyWhenRejected ==
  /\ \A id \in 1..Len(bookings) :
       bookings[id].status # "rejected" => bookings[id].rejectionReason = Undef
  /\ (req.op = "accept" /\ resp.code = 200) =>
       /\ resp.booking = <<bookings[req.id]>>
       /\ bookings[req.id].rejectionReason = Undef

\* An accept confirmed a pending booking.
C2_Witness ==
  /\ req.op = "accept" /\ resp.code = 200 /\ resp.message = "Booking confirmed."
  /\ bookings[req.id].status = "confirmed"
  /\ bookings[req.id].rejectionReason = Undef

\* C3: an accept of a booking that is already confirmed answers 200 with
\* that booking and changes nothing stored (status, rejectionReason,
\* trackingHistory and updatedAt included), so a second accept leaves the
\* state the first one left.
C3_ConfirmIdempotent ==
  [][\A id \in StoredIds :
       (/\ id <= Len(bookings) /\ bookings[id].status = "confirmed"
        /\ req'.op = "accept" /\ req'.id = id) =>
         /\ resp'.code = 200
         /\ resp'.booking = <<bookings[id]>>
         /\ bookings' = bookings
         /\ now' = now]_vars

\* A confirmed booking was accepted again.
C3_Witness ==
  /\ req.op = "accept" /\ resp.code = 200 /\ resp.message = "Booking already confirmed"
  /\ bookings[req.id].status = "confirmed"
  /\ resp.booking = <<bookings[req.id]>>

\* C4: a track whose trimmed label is "completed" in any letter case, on a
\* pending or confirmed booking, is answered 200 and leaves the booking
\* completed; a completed booking stays as it is in every later step, and
\* every later track with a label on it is answered 409.
C4_CompletedIsFinal ==
  [][\A id \in StoredIds :
       id <= Len(bookings) =>
         /\ ( /\ bookings[id].status \in {"pending", "confirmed"}
              /\ req'.op = "track" /\ req'.id = id /\ ValidLabel(req'.status)
              /\ ToLowerCase(Trim(req'.status.s)) = <<"c", "o", "m", "p", "l", "e", "t", "e", "d">> )
            => (resp'.code = 200 /\ bookings'[id].status = "completed")
         /\ bookings[id].status = "completed" =>
              /\ bookings'[id].status = "completed"
              /\ bookings'[id].trackingHistory = bookings[id].trackingHistory
              /\ (req'.op = "track" /\ req'.id = id /\ ValidLabel(req'.status))
                   => resp'.code = 409]_vars

\* A booking was completed by a track in capitals and a later track on it
\* got the 409.
C4_Witness ==
  /\ req.op = "track" /\ resp.code = 409
  /\ req.id \in 1..Len(bookings)
  /\ bookings[req.id].status = "completed"
  /\ bookings[req.id].tracking = Str(<<"C", "O", "M", "P", "L", "E", "T", "E", "D">>)
  /\ Len(bookings[req.id].trackingHistory) = 1

\* C5: while the server is idle and the clock is below its bound, every
\* pending booking can be confirmed by one accept, rejected by one reject and
\* cancelled by one cancel-booking of its client; and whenever one of these
\* requests addresses a pending booking, the step that serves it leaves the
\* booking confirmed, rejected or cancelled respectively.
C5_PendingDirect ==
  /\ [](\A id \in StoredIds :
          (id <= Len(bookings) /\ bookings[id].status = "pending" /\ Idle /\ now < MaxTime) =>
            /\ ENABLED (Accept(id) /\ bookings'[id].status = "confirmed")
            /\ ENABLED (Reject(id, Undef) /\ bookings'[id].status = "rejected")
            /\ ENABLED (Cancel(id, bookings[id].clientId) /\ bookings'[id].status = "cancelled"))
  /\ [][\A id \in StoredIds :
          (id <= Len(bookings) /\ bookings[id].status = "pending" /\ req'.id = id) =>
            /\ req'.op = "accept" => bookings'[id].status = "confirmed"
            /\ req'.op = "reject" => bookings'[id].status = "rejected"
            /\ (req'.op = "cancel" /\ req'.clientId = bookings[id].clientId)
                 => bookings'[id].status = "cancelled"]_vars

\* The only booking was created and then rejected: two writes in all.
C5_Witness ==
  /\ req.op = "reject" /\ resp.code = 200
  /\ Len(bookings) = 1 /\ now = 2
  /\ bookings[1].status = "rejected"

\* C6 as the specification words it: a track with a label other than
\* "completed" that is answered 200 stores the label and the message of the
\* request (the message when one is supplied) as they were supplied, appends
\* one entry carrying that label and leaves the booking confirmed.
C6_SuppliedValuesStored ==
  [][\A id \in StoredIds :
       (/\ id <= Len(bookings)
        /\ req'.op = "track" /\ req'.id = id /\ resp'.code = 200
        /\ ToLowerCase(Trim(req'.status.s)) # <<"c", "o", "m", "p", "l", "e", "t", "e", "d">>) =>
         /\ bookings'[id].tracking = req'.status
         /\ IsString(req'.message) => bookings'[id].trackingMessage = req'.message
         /\ Len(bookings'[id].trackingHistory) = Len(bookings[id].trackingHistory) + 1
         /\ bookings'[id].trackingHistory[Len(bookings[id].trackingHistory) + 1].status = req'.status.s
         /\ bookings'[id].status = "confirmed"]_vars

\* C6: a track with a label other than "completed" on a pending or confirmed
\* booking is answered 200, stores the trimmed label as tracking and the
\* trimmed message ("" when the message is not a string) as trackingMessage,
\* appends to the history, after the entries it had, exactly one entry with
\* that label, that message and the time of the call, and leaves the booking
\* confirmed; so the history grows by one with every such call, the label
\* being new or not.
C6_TrackAppendsOne ==
  [][\A id \in StoredIds :
       (/\ id <= Len(bookings) /\ bookings[id].status \in {"pending", "confirmed"}
        /\ req'.op = "track" /\ req'.id = id /\ ValidLabel(req'.status)
        /\ ToLowerCase(Trim(req'.status.s)) # <<"c", "o", "m", "p", "l", "e", "t", "e", "d">>) =>
         LET text == IF IsString(req'.message) THEN Trim(req'.message.s) ELSE <<>> IN
         /\ resp'.code = 200
         /\ bookings'[id].tracking = Str(Trim(req'.status.s))
         /\ bookings'[id].trackingMessage = Str(text)
         /\ bookings'[id].trackingHistory =
              Append(bookings[id].trackingHistory,
                     [status |-> Trim(req'.status.s), message |-> text, timestamp |-> now'])
         /\ bookings'[id].status = "confirmed"]_vars

\* The same padded label was tracked twice on one booking: two entries, the
\* label stored without its padding.
C6_Witness ==
  /\ req.op = "track" /\ resp.code = 200
  /\ req.status = Str(<<"A", "r", "r", "i", "v", "e", "d", " ">>)
  /\ Len(bookings[req.id].trackingHistory) = 2
  /\ \A i \in 1..2 : bookings[req.id].trackingHistory[i].status = <<"A", "r", "r", "i", "v", "e", "d">>
  /\ bookings[req.id].tracking = Str(<<"A", "r", "r", "i", "v", "e", "d">>)
  /\ bookings[req.id].status = "confirmed"

\* C7: a cancel-booking whose clientId is an ObjectId other than the
\* booking's clientId is answered 403, changes nothing stored and makes no
\* provider call.
C7_CancelByStranger ==
  [][\A id \in StoredIds :
       (/\ id <= Len(bookings)
        /\ req'.op = "cancel" /\ req'.id = id
        /\ req'.clientId \notin {Missing, BadId}
        /\ req'.clientId # bookings[id].clientId) =>
         /\ resp'.code = 403
         /\ bookings' = bookings
         /\ calls' = <<>>
         /\ UNCHANGED <<business, users>>]_vars

\* Another client asked to cancel a pending booking.
C7_Witness ==
  /\ req.op = "cancel" /\ resp.code = 403
  /\ req.id \in 1..Len(bookings)
  /\ req.clientId \in Clients
  /\ bookings[req.id].clientId # req.clientId
  /\ bookings[req.id].status = "pending"

\* C8: a cancel-booking by the booking's client on a pending or confirmed
\* booking is answered 200, sets the status to cancelled and appends to the
\* history, after the entries it had, exactly one entry labelled "Cancelled".
\* The first router keeps this; the cancel-booking of the second router
\* does not.
C8_CancelAppendsEntry ==
  [][\A id \in StoredIds :
       (/\ id <= Len(bookings) /\ bookings[id].status \in {"pending", "confirmed"}
        /\ req'.op = "cancel" /\ req'.id = id
        /\ req'.clientId = bookings[id].clientId) =>
         LET old == bookings[id].trackingHistory
             new == bookings'[id].trackingHistory
         IN /\ resp'.code = 200
            /\ bookings'[id].status = "cancelled"
            /\ Len(new) = Len(old) + 1
            /\ SubSeq(new, 1, Len(old)) = old
            /\ new[Len(new)].status = <<"C", "a", "n", "c", "e", "l", "l", "e", "d">>]_vars

\* Under the second router a booking was cancelled by its client and its
\* history holds no entry.
C8_Witness ==
  /\ req.op = "cancel" /\ resp.code = 200
  /\ bookings[req.id].status = "cancelled"
  /\ bookings[req.id].clientId = req.clientId
  /\ bookings[req.id].trackingHistory = <<>>

\* C9: a reject on a pending or confirmed booking is answered 200 and sets
\* the status to rejected; rejectionReason becomes the trimmed reason when the
\* reason is a string that is not blank, and is absent otherwise.
C9_RejectStoresTrimmedReason ==
  [][\A id \in StoredIds :
       (/\ id <= Len(bookings) /\ bookings[id].status \in {"pending", "confirmed"}
        /\ req'.op = "reject" /\ req'.id = id) =>
         /\ resp'.code = 200
         /\ bookings'[id].status = "rejected"
         /\ bookings'[id].rejectionReason =
              IF req'.reason.t = "string" /\ Trim(req'.reason.s) # <<>>
              THEN Str(Trim(req'.reason.s)) ELSE Undef]_vars

\* A booking was rejected with a padded reason, stored trimmed.
C9_Witness ==
  /\ req.op = "reject" /\ resp.code = 200
  /\ req.reason = Str(<<" ", "l", "a", "t", "e", " ">>)
  /\ bookings[req.id].status = "rejected"
  /\ bookings[req.id].rejectionReason = Str(<<"l", "a", "t", "e">>)

\* C10: an add-bookings answered 201 appends one booking, pending, and
\* answers with it; an add-bookings whose instant the schedule check denies
\* is not answered 201, stores nothing, changes no token list and makes no
\* provider call, and when the rest of the request is well-formed it is
\* answered 400 with the message of the schedule check.
C10_CreatePendingOrNothing ==
  [][req'.op = "create" =>
       /\ resp'.code = 201 =>
            /\ bookings' = Append(bookings, resp'.booking[1])
            /\ resp'.booking[1].status = "pending"
       /\ ( /\ req'.scheduledAt.valid
            /\ ScheduleCheck(business.operatingSchedule, req'.scheduledAt) # "ok" ) =>
            /\ resp'.code # 201
            /\ bookings' = bookings
            /\ calls' = <<>>
            /\ UNCHANGED <<business, users>>
            /\ req' \in {ValidCreate(c, req'.scheduledAt) : c \in Clients} =>
                 /\ resp'.code = 400
                 /\ resp'.message = ScheduleCheck(business.operatingSchedule, req'.scheduledAt)]_vars

\* With one pending booking stored, an add-bookings for Tuesday, a closed
\* day, was answered 400.
C10_Witness ==
  /\ req.op = "create" /\ resp.code = 400
  /\ resp.message = "Business is closed on the requested day."
  /\ Len(bookings) = 1
  /\ bookings[1].status = "pending"
  /\ calls = <<>>

(***************************************************************************)
(* Properties of the schedule check.                                       *)
(***************************************************************************)
\* C11: when the entry of the requested weekday is not closed and its open
\* and close parse with close > open, a well-formed add-bookings is answered
\* 201 iff open <= hours*60 + minutes < close, and 400 "outside operating
\* hours" otherwise; with 09:00-17:00 that is iff 540 <= minutes < 1020.
C11_SameDayWindow ==
  [][req'.op = "create" =>
       LET at == req'.scheduledAt
           entry == business.operatingSchedule.days[weekdayIndexToKey(at.day)]
           s == parseTimeToMinutes(entry.open)
           e == parseTimeToMinutes(entry.close)
           minutes == at.hours * 60 + at.minutes
       IN (/\ business.operatingSchedule.present /\ entry.defined /\ ~entry.closed
           /\ s # NoMinutes /\ e # NoMinutes /\ e > s) =>
            /\ resp'.code = 201 <=> (s <= minutes /\ minutes < e)
            /\ resp'.code # 201 =>
                 /\ resp'.code = 400
                 /\ resp'.message = "Requested time falls outside business operating hours."
            /\ (entry.open = Str(<<"0", "9", ":", "0", "0">>) /\ entry.close = Str(<<"1", "7", ":", "0", "0">>))
                 => (resp'.code = 201 <=> (540 <= minutes /\ minutes < 1020))]_vars

\* Monday is 09:00-17:00 and the request for Monday 17:00 was denied.
C11_Witness ==
  /\ req.op = "create" /\ resp.code = 400
  /\ resp.message = "Requested time falls outside business operating hours."
  /\ business.operatingSchedule = WeekSchedule
  /\ req.scheduledAt = Instant(1, 17, 0)
  /\ resp.allowed = <<"0", "9", ":", "0", "0", "-", "1", "7", ":", "0", "0">>

\* C12: when the entry of the requested weekday is not closed and its open
\* and close parse with close <= open, a well-formed add-bookings is answered
\* 201 iff hours*60 + minutes >= open or < close, and 400 "outside operating
\* hours" otherwise; with 22:00-02:00 that is iff minutes >= 1320 or < 120.
C12_OvernightWindow ==
  [][req'.op = "create" =>
       LET at == req'.scheduledAt
           entry == business.operatingSchedule.days[weekdayIndexToKey(at.day)]
           s == parseTimeToMinutes(entry.open)
           e == parseTimeToMinutes(entry.close)
           minutes == at.hours * 60 + at.minutes
       IN (/\ business.operatingSchedule.present /\ entry.defined /\ ~entry.closed
           /\ s # NoMinutes /\ e # NoMinutes /\ e <= s) =>
            /\ resp'.code = 201 <=> (minutes >= s \/ minutes < e)
            /\ resp'.code # 201 =>
                 /\ resp'.code = 400
                 /\ resp'.message = "Requested time falls outside business operating hours."
            /\ (entry.open = Str(<<"2", "2", ":", "0", "0">>) /\ entry.close = Str(<<"0", "2", ":", "0", "0">>))
                 => (resp'.code = 201 <=> (minutes >= 1320 \/ minutes < 120))]_vars

\* Wednesday is 22:00-02:00 and a booking for Wednesday 23:30 was created.
C12_Witness ==
  /\ req.op = "create" /\ resp.code = 201
  /\ business.operatingSchedule = WeekSchedule
  /\ req.scheduledAt = Instant(3, 23, 30)
  /\ bookings[Len(bookings)].scheduledAt = Instant(3, 23, 30)

\* C13: when the entry of the requested weekday has closed = true, a
\* well-formed add-bookings is answered 400 "Business is closed on the
\* requested day." with the allowed range "closed", for every instant and
\* whatever the open and close of the entry are; nothing is stored.
C13_ClosedDayDenied ==
  [][req'.op = "create" =>
       LET entry == business.operatingSchedule.days[weekdayIndexToKey(req'.scheduledAt.day)] IN
       (business.operatingSchedule.present /\ entry.defined /\ entry.closed) =>
         /\ resp'.code = 400
         /\ resp'.message = "Business is closed on the requested day."
         /\ resp'.allowed = <<"c", "l", "o", "s", "e", "d">>
         /\ bookings' = bookings]_vars

\* Tuesday is closed with hours 09:00-17:00 and the request for Tuesday noon
\* was denied.
C13_Witness ==
  /\ req.op = "create" /\ resp.code = 400
  /\ resp.message = "Business is closed on the requested day."
  /\ resp.allowed = <<"c", "l", "o", "s", "e", "d">>
  /\ req.scheduledAt = Instant(2, 12, 0)
  /\ business.operatingSchedule.days["Tue"] =
       DayEntry(Str(<<"0", "9", ":", "0", "0">>), Str(<<"1", "7", ":", "0", "0">>), TRUE)

\* C14: when the schedule holds no entry for the requested weekday, a
\* well-formed add-bookings is answered 400 with the message of a closed day.
C14_MissingEntryDeniedAsClosed ==
  [][req'.op = "create" =>
       LET entry == business.operatingSchedule.days[weekdayIndexToKey(req'.scheduledAt.day)] IN
       (business.operatingSchedule.present /\ ~entry.defined) =>
         /\ resp'.code = 400
         /\ resp'.message = "Business is closed on the requested day."]_vars

\* The schedule holds no entry for Friday and the request for Friday noon
\* was denied with the message of unavailable hours.
C14_Witness ==
  /\ req.op = "create" /\ resp.code = 400
  /\ business.operatingSchedule = WeekSchedule
  /\ req.scheduledAt = Instant(5, 12, 0)
  /\ resp.message = "Business operating hours not available for the requested day (treated as closed)."
  /\ resp.allowed = <<"c", "l", "o", "s", "e", "d">>

\* HH:mm or HH:mm:ss with the hour in 0..23 and the minute in 0..59
IsClockTime(v) ==
  /\ v.t = "string"
  /\ Len(v.s) \in {5, 8}
  /\ \A i \in {1, 2, 4, 5} : IsDigit(v.s[i])
  /\ v.s[3] = ":"
  /\ Len(v.s) = 8 => (v.s[6] = ":" /\ IsDigit(v.s[7]) /\ IsDigit(v.s[8]))
  /\ DigitValue(v.s[1]) * 10 + DigitValue(v.s[2]) <= 23
  /\ DigitValue(v.s[4]) * 10 + DigitValue(v.s[5]) <= 59

\* C15: when the entry of the requested weekday is not closed and its open
\* or its close is not a clock time (missing included), a well-formed
\* add-bookings is answered 400 "hours not available (treated as closed)",
\* for every instant.
C15_MalformedHoursDenied ==
  [][req'.op = "create" =>
       LET entry == business.operatingSchedule.days[weekdayIndexToKey(req'.scheduledAt.day)] IN
       (/\ business.operatingSchedule.present /\ entry.defined /\ ~entry.closed
        /\ (~IsClockTime(entry.open) \/ ~IsClockTime(entry.close))) =>
         /\ resp'.code = 400
         /\ resp'.message =
              "Business operating hours not available for the requested day (treated as closed)."]_vars

\* Saturday opens at "09:00am" and a booking for Saturday noon was created.
C15_Witness ==
  /\ req.op = "create" /\ resp.code = 201
  /\ business.operatingSchedule = OddSchedule
  /\ req.scheduledAt = Instant(6, 12, 0)
  /\ business.operatingSchedule.days["Sat"].open = Str(<<"0", "9", ":", "0", "0", "a", "m">>)

\* C16: when the business has no operatingSchedule, every well-formed
\* add-bookings is answered 201 and stores its booking, whatever the instant.
C16_NoScheduleNoConstraint ==
  [][(req'.op = "create" /\ ~business.operatingSchedule.present) =>
       /\ resp'.code = 201
       /\ bookings' = Append(bookings, resp'.booking[1])
       /\ resp'.booking[1].scheduledAt = req'.scheduledAt]_vars

\* Without a schedule a booking for Sunday 00:00 was created.
C16_Witness ==
  /\ req.op = "create" /\ resp.code = 201
  /\ ~business.operatingSchedule.present
  /\ req.scheduledAt = Instant(0, 0, 0)
  /\ bookings[Len(bookings)].scheduledAt = Instant(0, 0, 0)

(***************************************************************************)
(* The first router with a provider that can fail: admin.messaging() is    *)
(* absent, is an object without any send method, or has send methods whose *)
(* calls can throw and can report each token delivered, failed or dead;    *)
(* the pruning update that follows a dead token can throw too (Outcomes).  *)
(***************************************************************************)
BareMessaging == Messaging({}, {"ok"}, FALSE)

FlakyMessaging ==
  Messaging({"sendMulticast", "sendToDevice"},
            {"ok", "messaging/internal-error", "messaging/registration-token-not-registered"},
            TRUE)

InitDispatch ==
  /\ bookings = <<>>
  /\ business = [clientId |-> OwnerId, fcmTokens |-> <<T1>>, operatingSchedule |-> WeekSchedule]
  /\ users = [u \in UserIds |->
                CASE u = "c1" -> UserDoc(TRUE, <<T2>>, Undef)
                  [] u = "c2" -> UserDoc(FALSE, <<>>, T4)
                  [] OTHER -> UserDoc(FALSE, <<>>, T4)]
  /\ locations = [c \in Clients |-> <<>>]
  /\ messaging \in {NoMessaging, BareMessaging, FlakyMessaging}
  /\ now = 0
  /\ services = StoredService
  /\ req = BaseReq
  /\ resp = NoResp
  /\ calls = <<>>

SpecDispatch == InitDispatch /\ [][Next]_vars

(***************************************************************************)
(* The handlers of the first router taken one await at a time: validation, *)
(* load, guard and the assignments to the document in memory (Begin), the  *)
(* save (Persist), then for each party in turn the provider call (Dispatch)*)
(* and the pruning update with the entry of the response (Prune), and the  *)
(* response (Respond).  req.at is the handler's position.                  *)
(***************************************************************************)
Refused(code, message) == [code |-> code, message |-> message, doc |-> <<>>, schedule |-> FALSE]
Mutated(doc) == [code |-> 0, message |-> "", doc |-> <<doc>>, schedule |-> FALSE]

\* What the handler of r reaches before its save: a refusal, the booking as
\* it is (accept of a confirmed booking, code 200), or the document with the
\* handler's assignments made at time t.
Guarded(r, lookupFails, t) ==
  IF r.op = "create"
  THEN IF \/ r.clientId = Missing \/ r.businessId = Missing \/ ~Truthy(r.serviceTitle)
          \/ ~r.scheduledAt.present \/ ~Truthy(r.contactName) \/ ~Truthy(r.contactPhone)
       THEN Refused(400, "Missing required booking fields.")
       ELSE IF ~ValidObjectId(r.clientId) \/ ~ValidObjectId(r.businessId)
       THEN Refused(400, "Invalid clientId or businessId.")
       ELSE IF r.serviceId # Missing /\ ~ValidObjectId(r.serviceId)
       THEN Refused(400, "Invalid serviceId.")
       ELSE IF r.clientId \notin UserIds THEN Refused(404, "Client not found.")
       ELSE IF r.businessId # BusinessId THEN Refused(404, "Business not found.")
       ELSE IF ~r.scheduledAt.valid
       THEN Refused(400, "scheduledAt must be a valid date/time string.")
       ELSE IF ScheduleCheck(business.operatingSchedule, r.scheduledAt) # "ok"
       THEN [Refused(400, ScheduleCheck(business.operatingSchedule, r.scheduledAt))
               EXCEPT !.schedule = TRUE]
       ELSE Mutated(NewBooking(r, ResolveService(r),
                               LocationSnapshot(locations[r.clientId], lookupFails), t))
  ELSE IF r.id = 0 THEN Refused(400, "Invalid booking id")
  ELSE IF r.op = "cancel" /\ r.clientId \in {Missing, BadId}
  THEN Refused(400, "Valid clientId is required")
  ELSE IF r.op = "track" /\ ~ValidLabel(r.status)
  THEN Refused(400, "Missing 'status' in request body.")
  ELSE IF r.id > Len(bookings) THEN Refused(404, "Booking not found")
  ELSE
    LET booking == bookings[r.id] IN
    CASE r.op = "accept" ->
           IF AcceptRefused(booking.status)
           THEN Refused(409, "Cannot accept booking with status")
           ELSE IF AlreadyConfirmed(booking.status)
           THEN [code |-> 200, message |-> "Booking already confirmed",
                 doc |-> <<booking>>, schedule |-> FALSE]
           ELSE Mutated(AcceptMutation(booking, t))
      [] r.op = "reject" ->
           IF RejectRefused(booking.status)
           THEN Refused(409, "Cannot reject booking with status")
           ELSE Mutated(RejectMutation(booking, r.reason, t))
      [] r.op = "cancel" ->
           IF ~OwnsBooking(booking, r.clientId)
           THEN Refused(403, "Not authorized to cancel this booking")
           ELSE IF CancelRefused(booking.status)
           THEN Refused(409, "Cannot cancel booking with status")
           ELSE Mutated(CancelMutation(booking, t))
      [] OTHER ->
           IF TrackBlocked(booking.status)
           THEN Refused(409, "Cannot update tracking for booking with status")
           ELSE Mutated(TrackMutation(booking, r.status, r.message, t))

\* The parties a handler notifies, in the order of its notification block.
PartiesOf(op) ==
  CASE op = "create" -> <<"business">>
    [] op = "cancel" -> <<"business", "client">>
    [] OTHER -> <<"client">>

\* The request as the atomic handlers leave it.
Settled(r) ==
  [r EXCEPT !.at = "responded", !.doc = <<>>, !.parties = <<>>, !.step = <<>>, !.entries = <<>>]

\* The requests served stepwise.
StepRequests ==
  {ValidCreate(c, Instant(1, 10, 0)) : c \in Clients}
  \cup {ValidCreate("c1", Instant(2, 12, 0))}
  \cup {[BaseReq EXCEPT !.op = "accept", !.id = id] : id \in StoredIds \cup {0}}
  \cup {[BaseReq EXCEPT !.op = "reject", !.id = id, !.reason = Undef] : id \in StoredIds}
  \cup {[BaseReq EXCEPT !.op = "cancel", !.id = id, !.clientId = c] : id \in StoredIds, c \in Clients}
  \cup {[BaseReq EXCEPT !.op = "track", !.id = id, !.status = Arrived] : id \in StoredIds}

Begin(r) ==
  /\ Idle
  /\ now < MaxTime
  /\ r.op = "create" => Len(bookings) < MaxBookings
  /\ \E lookupFails \in {f \in BOOLEAN : r.op = "create" \/ ~f} :
       LET g == Guarded(r, lookupFails, now + 1) IN
       IF g.schedule THEN ScheduleDenied(r, g.message)
       ELSE IF g.code = 409 THEN Conflict(r, g.message, r.id)
       ELSE IF g.code = 200
       THEN /\ req' = r
            /\ resp' = Success(200, g.message, r.id, g.doc[1], <<>>)
            /\ calls' = <<>>
            /\ UNCHANGED <<bookings, business, users, locations, messaging, services, now>>
       ELSE IF g.code # 0 THEN Fail(r, g.code, g.message)
       ELSE /\ req' = [r EXCEPT !.at = "mutated", !.doc = g.doc, !.parties = PartiesOf(r.op)]
            /\ resp' = NoResp
            /\ calls' = <<>>
            /\ UNCHANGED <<bookings, business, users, locations, messaging, services, now>>

\* await booking.save()
Persist ==
  /\ req.at = "mutated"
  /\ IF ~SaveOk(req.doc[1])
     THEN Fail(Settled(req), 500, "Server error")
     ELSE /\ bookings' = IF req.op = "create" THEN Append(bookings, req.doc[1])
                         ELSE [bookings EXCEPT ![req.id] = req.doc[1]]
          /\ now' = now + 1
          /\ req' = [req EXCEPT !.at = "persisted",
                                !.id = IF req.op = "create" THEN Len(bookings) + 1 ELSE @]
          /\ UNCHANGED <<business, users, locations, messaging, services, resp, calls>>

\* A handler that would notify before it saves.
CanDispatchBeforeSave(r) == r.at \in {"mutated", "persisted"} /\ r.parties # <<>>

\* The notification block follows the save.
CanDispatch(r) == r.at = "persisted" /\ r.parties # <<>>

\* The tokens a handler gathers for a party.
TokensFor(op, party, doc) ==
  CASE op = "create" -> BusinessTokensForCreate(business, users[business.clientId])
    [] op = "cancel" /\ party = "business" ->
         ProviderTokensForCancel(business, users[business.clientId])
    [] op = "cancel" /\ party = "client" -> ClientTokensForCancel(users[doc.clientId])
    [] OTHER -> ClientTokens(users[doc.clientId])

\* The provider call for the next party, and what it reported: req.step holds
\* the result, what the surroundings did and the token list of the call.
Dispatch ==
  /\ CanDispatch(req)
  /\ LET party == Head(req.parties)
         doc == req.doc[1]
         tokens == TokensFor(req.op, party, doc)
     IN \E outcome \in Outcomes(messaging, tokens) :
          LET n == IF party = "business"
                   THEN NotifyBusiness(business, tokens, outcome, req.op # "cancel")
                   ELSE NotifyClient(users[doc.clientId], tokens, outcome, req.op # "cancel")
          IN /\ req' = [req EXCEPT !.at = "dispatched", !.step = <<n, outcome, tokens>>]
             /\ calls' = calls \o n.calls
             /\ UNCHANGED <<bookings, business, users, locations, messaging, services, now, resp>>

\* The pruning update for the party just notified and its entry of the
\* response; the handler then turns to the next party or to the response.
Prune ==
  /\ req.at = "dispatched"
  /\ LET n == req.step[1]
         party == Head(req.parties)
         rest == Tail(req.parties)
     IN /\ IF party = "business"
           THEN business' = n.doc /\ UNCHANGED users
           ELSE users' = [users EXCEPT ![req.doc[1].clientId] = n.doc] /\ UNCHANGED business
        /\ req' = [req EXCEPT !.at = IF rest = <<>> THEN "notified" ELSE "persisted",
                              !.parties = rest, !.step = <<>>,
                              !.entries = Append(@, n.entry)]
        /\ UNCHANGED <<bookings, locations, messaging, services, now, resp, calls>>

\* The success response of each handler.
SuccessOf(op) ==
  CASE op = "create" -> [code |-> 201, message |-> "Booking created."]
    [] op = "accept" -> [code |-> 200, message |-> "Booking confirmed."]
    [] op = "reject" -> [code |-> 200, message |-> "Booking rejected."]
    [] op = "cancel" -> [code |-> 200, message |-> "Booking cancelled"]
    [] OTHER -> [code |-> 200, message |-> "Tracking updated."]

Respond ==
  /\ req.at = "notified"
  /\ resp' = Success(SuccessOf(req.op).code, SuccessOf(req.op).message,
                     req.id, req.doc[1], req.entries)
  /\ req' = [req EXCEPT !.at = "responded"]
  /\ UNCHANGED <<bookings, business, users, locations, messaging, services, now, calls>>

NextSteps ==
  \/ Deliver
  \/ \E r \in StepRequests : Begin(r)
  \/ Persist
  \/ Dispatch
  \/ Prune
  \/ Respond

SpecSteps == InitDispatch /\ [][NextSteps]_vars

(***************************************************************************)
(* The same steps over token collections with several entries: two tokens  *)
(* per collection, a collection holding one token twice, and one holding a *)
(* blank string and a number beside a token, with a business that has no   *)
(* token of its own; the owner of the business has a token or none.        *)
(* Client documents are read as they are stored (lean), their token fields *)
(* are not part of the Client schema.  The provider has every send method, *)
(* only the last one or none; its calls can throw and answer each token    *)
(* with any of OutcomeCodes.                                               *)
(***************************************************************************)
TokenLayouts ==
  {[biz |-> <<T1, T3>>, c1 |-> <<T2, T3>>, owner |-> T4],
   [biz |-> <<T1>>, c1 |-> <<T2, T2>>, owner |-> Undef],
   [biz |-> <<>>, c1 |-> <<Blank, T2, Num(5)>>, owner |-> T4]}

InitTokens ==
  /\ bookings = <<>>
  /\ \E layout \in TokenLayouts :
       /\ business = [clientId |-> OwnerId, fcmTokens |-> layout.biz,
                      operatingSchedule |-> WeekSchedule]
       /\ users = [u \in UserIds |->
                     CASE u = "c1" -> UserDoc(TRUE, layout.c1, Undef)
                       [] u = "c2" -> UserDoc(TRUE, <<>>, T4)
                       [] OTHER -> UserDoc(FALSE, <<>>, layout.owner)]
  /\ locations = [c \in Clients |-> <<>>]
  /\ \E methods \in {{"sendEachForMulticast", "sendMulticast", "sendToDevice"},
                      {"sendToDevice"}, {}} :
       messaging = Messaging(methods, OutcomeCodes, TRUE)
  /\ now = 0
  /\ services = StoredService
  /\ req = BaseReq
  /\ resp = NoResp
  /\ calls = <<>>

SpecTokens == InitTokens /\ [][NextSteps]_vars

(***************************************************************************)
(* POST /save-location of clientRoutes.ts beside the booking handlers: a   *)
(* client adds an address (which becomes the selected one) or updates one  *)
(* of its addresses, and bookings are created and moved on meanwhile.      *)
(***************************************************************************)
Home == Str(<<"H", "o", "m", "e">>)
Work == Str(<<" ", "W", "o", "r", "k">>)

\* typeof v === "number" ? v : parseFloat(String(v)), for values without a
\* fraction or an exponent
Coordinate(v) ==
  CASE v.t = "number" -> Number(v.n)
    [] v.t = "string" -> ParseInt(v.s)
    [] OTHER -> NaN

\* updateMany({ clientId, selectedLocation: true }, { $set: { selectedLocation: false } }),
\* sparing the document at index keep (0: none)
Unselect(locs, keep) ==
  [i \in 1..Len(locs) |-> IF i = keep THEN locs[i] ELSE [locs[i] EXCEPT !.selectedLocation = FALSE]]

\* The location with id (owner, k) is the k-th address of owner; k = 0 is a
\* request without id.  sel is the selectedLocation of the body: "absent",
\* "true" (true or 'true'), "falsy" (false, 0, null, '') or "truthy" (any
\* other value, such as 'false' or 1).
SaveLocation(owner, k, c, address, lat, lon, sel) ==
  LET r == [BaseReq EXCEPT !.op = "save-location", !.clientId = c] IN
  /\ Idle
  /\ IF c = Missing \/ ~Truthy(address) \/ lat.t = "undefined" \/ lon.t = "undefined"
     THEN Fail(r, 400, "Missing required fields.")
     ELSE IF Coordinate(lat).nan \/ Coordinate(lon).nan
     THEN Fail(r, 400, "Invalid latitude or longitude.")
     ELSE IF k # 0
     THEN IF k > Len(locations[owner]) THEN Fail(r, 404, "Location not found.")
          ELSE IF owner # c THEN Fail(r, 403, "You are not allowed to modify this location.")
          ELSE
            LET existing == [locations[owner][k] EXCEPT
                               !.address = address,
                               !.latitude = Num(Coordinate(lat).v),
                               !.longitude = Num(Coordinate(lon).v),
                               !.selectedLocation = CASE sel = "true" -> TRUE
                                                      [] sel = "truthy" -> TRUE
                                                      [] sel = "falsy" -> FALSE
                                                      [] OTHER -> @]
                others == IF sel = "true" THEN Unselect(locations[owner], k)
                          ELSE locations[owner]
            IN /\ locations' = [locations EXCEPT ![owner] = [others EXCEPT ![k] = existing]]
               /\ req' = r
               /\ resp' = ErrorResp(200, "Location updated successfully.")
               /\ calls' = <<>>
               /\ UNCHANGED <<bookings, business, users, messaging, services, now>>
     ELSE /\ Len(locations[c]) < MaxLocations
          /\ locations' = [locations EXCEPT ![c] =
                             Append(Unselect(@, 0),
                                    LocationDoc(address, Num(Coordinate(lat).v),
                                                Num(Coordinate(lon).v), TRUE))]
          /\ req' = r
          /\ resp' = ErrorResp(201, "Location saved successfully.")
          /\ calls' = <<>>
          /\ UNCHANGED <<bookings, business, users, messaging, services, now>>

\* PATCH /:id/select.  k = 0 is an id that is no ObjectId; aborts is a
\* transaction that throws (a server without transactions), which leaves
\* the addresses as they were.
SelectLocation(owner, k, c, aborts) ==
  LET r == [BaseReq EXCEPT !.op = "select", !.clientId = c] IN
  /\ Idle
  /\ IF k = 0 THEN Fail(r, 400, "Invalid location id.")
     ELSE IF c = Missing THEN Fail(r, 400, "clientId is required in body (or use auth).")
     ELSE IF c = BadId THEN Fail(r, 400, "Invalid clientId.")
     ELSE IF k > Len(locations[owner]) THEN Fail(r, 404, "Location not found.")
     ELSE IF owner # c THEN Fail(r, 403, "You are not allowed to select this location.")
     ELSE IF aborts THEN Fail(r, 500, "Server error")
     ELSE /\ locations' = [locations EXCEPT ![owner] =
                             [Unselect(@, k) EXCEPT ![k].selectedLocation = TRUE]]
          /\ req' = r
          /\ resp' = ErrorResp(200, "")
          /\ calls' = <<>>
          /\ UNCHANGED <<bookings, business, users, messaging, services, now>>

InitLocations == Init /\ messaging = HealthyMessaging

\* The booking request of the client whose addresses change.
RequestOfC1 == ValidCreate("c1", Instant(1, 10, 0))

\* Coordinates of the requests: a number, a numeric string, a string that
\* is no number.
Seven == Num(7)
EightText == Str(<<"8">>)
NoNumberText == Str(<<"x">>)
NewAddresses == {Work, Blank}
SelectedLocationValues == {"absent", "true", "falsy", "truthy"}

\* The requests of save-location: c1 adds an address or rewrites its first
\* one or an unknown one, a malformed request, and c2 reaching for the
\* address of c1.
NextLocations ==
  \/ Deliver
  \/ \E k \in {0, 1, MaxLocations + 1}, address \in NewAddresses, sel \in SelectedLocationValues :
       SaveLocation("c1", k, "c1", address, Seven, EightText, sel)
  \/ \E address \in {Undef, Home}, lat \in {Undef, NoNumberText} :
       SaveLocation("c1", 0, "c1", address, lat, Seven, "absent")
  \/ SaveLocation("c1", 1, "c2", Home, Seven, Seven, "true")
  \/ Create(RequestOfC1)
  \/ \E id \in StoredIds : Accept(id)
  \/ \E id \in StoredIds : Reject(id, Undef)
  \/ \E id \in StoredIds : Cancel(id, "c1")
  \/ \E id \in StoredIds : Track(id, Arrived, Undef)

SpecLocations == InitLocations /\ [][NextLocations]_vars

\* The address routes alone: c1 adds an address, rewrites or selects any of
\* its addresses or an unknown one; requests without or with a malformed
\* clientId; c2 reaching for an address of c1.
NextSelect ==
  \/ Deliver
  \/ \E k \in 0..(MaxLocations + 1), address \in NewAddresses, sel \in SelectedLocationValues :
       SaveLocation("c1", k, "c1", address, Seven, EightText, sel)
  \/ \E address \in {Undef, Home}, lat \in {Undef, NoNumberText} :
       SaveLocation("c1", 0, "c1", address, lat, Seven, "absent")
  \/ SaveLocation("c1", 1, "c2", Home, Seven, Seven, "true")
  \/ \E k \in 0..(MaxLocations + 1), aborts \in BOOLEAN : SelectLocation("c1", k, "c1", aborts)
  \/ \E c \in {"c2", Missing, BadId} : SelectLocation("c1", 1, c, FALSE)

SpecSelect == InitLocations /\ [][NextSelect]_vars

(***************************************************************************)
(* PUT /service/:id of businessRoutes.ts beside the booking handlers: the  *)
(* service a booking was made for is edited while the booking moves on.    *)
(* The image fields of the service are left out.                           *)
(***************************************************************************)
\* title, price and duration of the body are strings, numbers or absent.
UpdateService(id, title, price, duration, incomingBusinessId) ==
  LET r == [BaseReq EXCEPT !.op = "update-service", !.serviceId = id] IN
  /\ Idle
  /\ IF id = Missing \/ ~ValidObjectId(id) THEN Fail(r, 400, "Valid service id is required.")
     ELSE IF id # ServiceId THEN Fail(r, 404, "Service not found.")
     ELSE IF incomingBusinessId # Missing /\ incomingBusinessId # BusinessId
     THEN Fail(r, 403, "Cannot change businessId of a service.")
     ELSE IF price.t # "undefined" /\ (Coordinate(price).nan \/ Coordinate(price).v < 0)
     THEN Fail(r, 400, "Price must be a valid non-negative number.")
     ELSE
       LET service == [title |-> IF title.t = "undefined" THEN services.title
                                 ELSE Str(Trim(title.s)),
                       price |-> IF price.t = "undefined" THEN services.price
                                 ELSE Num(Coordinate(price).v),
                       duration |-> IF duration.t = "undefined" THEN services.duration
                                    ELSE Str(Trim(duration.s))]
       IN IF service.title.s = <<>> THEN Fail(r, 500, "Server error.")
          ELSE /\ services' = service
               /\ req' = r
               /\ resp' = ErrorResp(200, "Service updated successfully.")
               /\ calls' = <<>>
               /\ UNCHANGED <<bookings, business, users, locations, messaging, now>>

InitServices == Init /\ messaging = HealthyMessaging

\* Bodies of the edits and the booking request that names the service and
\* leaves price and duration to it.
Dye == Str(<<"D", "y", "e", " ">>)
TwoHours == Str(<<"2", "h">>)
SevenText == Str(<<"7">>)
ServiceEdits ==
  {<<Dye, Undef, Undef>>, <<Undef, Seven, Undef>>, <<Undef, SevenText, TwoHours>>,
   <<Blank, Seven, Undef>>, <<Dye, NoNumberText, Undef>>, <<Undef, Num(-1), Undef>>}
RequestWithService == [RequestOfC1 EXCEPT !.serviceId = ServiceId]

NextServices ==
  \/ Deliver
  \/ \E e \in ServiceEdits : UpdateService(ServiceId, e[1], e[2], e[3], Missing)
  \/ \E id \in {BadId, GhostId} : UpdateService(id, Dye, Seven, Undef, Missing)
  \/ UpdateService(ServiceId, Dye, Seven, Undef, GhostId)
  \/ Create(RequestWithService)
  \/ \E id \in StoredIds : Accept(id)
  \/ \E id \in StoredIds : Reject(id, Undef)
  \/ \E id \in StoredIds : Cancel(id, "c1")
  \/ \E id \in StoredIds : Track(id, Arrived, Undef)

SpecServices == InitServices /\ [][NextServices]_vars

(***************************************************************************)
(* Two handlers at once on one booking.  Each of accept, reject,           *)
(* cancel-booking and track loads the booking (findById), tests and        *)
(* assigns on its own copy, and awaits booking.save(), which validates     *)
(* that copy and writes the paths assigned a new value (the pushed entries *)
(* for trackingHistory); there is no version test on these paths.  Here    *)
(* req and resp hold one request and one response per handler.  No         *)
(* provider is configured, so the notification block that follows the save *)
(* makes no call and prunes nothing.                                       *)
(***************************************************************************)
Handlers == {1, 2}

\* A save that would leave the document alone when its status is no longer
\* the one the handler loaded.
SaveIfStatusUnchanged(stored, loaded, doc) ==
  IF stored.status # loaded.status THEN stored
  ELSE [f \in DOMAIN stored |->
          IF f = "trackingHistory"
          THEN stored[f] \o SubSeq(doc[f], Len(loaded[f]) + 1, Len(doc[f]))
          ELSE IF doc[f] # loaded[f] THEN doc[f] ELSE stored[f]]

\* booking.save() on a loaded document: the stored document after the update
SaveModified(stored, loaded, doc) ==
  [f \in DOMAIN stored |->
     IF f = "trackingHistory"
     THEN stored[f] \o SubSeq(doc[f], Len(loaded[f]) + 1, Len(doc[f]))
     ELSE IF doc[f] # loaded[f] THEN doc[f] ELSE stored[f]]

\* The notification entries of a handler when no provider is configured.
QuietEntries(op, doc) ==
  [i \in 1..Len(PartiesOf(op)) |->
     LET party == PartiesOf(op)[i]
         tokens == TokensFor(op, party, doc)
         outcome == CHOOSE o \in Outcomes(messaging, tokens) : TRUE
     IN IF party = "business"
        THEN NotifyBusiness(business, tokens, outcome, op # "cancel").entry
        ELSE NotifyClient(users[doc.clientId], tokens, outcome, op # "cancel").entry]

Late == Str(<<"l", "a", "t", "e">>)
RaceRequests ==
  {[BaseReq EXCEPT !.op = "accept", !.id = 1],
   [BaseReq EXCEPT !.op = "reject", !.id = 1, !.reason = Late],
   [BaseReq EXCEPT !.op = "reject", !.id = 1],
   [BaseReq EXCEPT !.op = "cancel", !.id = 1, !.clientId = "c1"],
   [BaseReq EXCEPT !.op = "track", !.id = 1, !.status = Arrived]}

\* The state after one add-bookings of c1 has been served.
InitRace ==
  /\ business = [clientId |-> OwnerId, fcmTokens |-> <<T1>>, operatingSchedule |-> WeekSchedule]
  /\ users = [u \in UserIds |-> IF u = "c1" THEN UserDoc(TRUE, <<T2>>, Undef)
                                ELSE UserDoc(FALSE, <<>>, T4)]
  /\ locations = [c \in Clients |-> <<>>]
  /\ messaging = NoMessaging
  /\ services = StoredService
  /\ bookings = <<NewBooking(RequestOfC1, ResolveService(RequestOfC1), NoLocation, 1)>>
  /\ now = 1
  /\ req = [h \in Handlers |-> BaseReq]
  /\ resp = [h \in Handlers |-> NoResp]
  /\ calls = <<>>

\* From the request to the await of save(): load, guards, assignments.
BeginOf(h, r) ==
  /\ req[h].op = "none"
  /\ now < MaxTime
  /\ LET g == Guarded(r, FALSE, now + 1) IN
     IF g.code = 0
     THEN /\ req' = [req EXCEPT ![h] = [r EXCEPT !.at = "mutated",
                                                 !.doc = g.doc \o <<bookings[r.id]>>]]
          /\ resp' = [resp EXCEPT ![h] = NoResp]
          /\ now' = now + 1
          /\ UNCHANGED <<bookings, business, users, locations, messaging, services, calls>>
     ELSE /\ req' = [req EXCEPT ![h] = r]
          /\ resp' = [resp EXCEPT ![h] =
                        IF g.code = 200 THEN Success(200, g.message, r.id, g.doc[1], <<>>)
                        ELSE IF g.code = 409 THEN [ErrorResp(409, g.message) EXCEPT !.id = r.id]
                        ELSE ErrorResp(g.code, g.message)]
          /\ UNCHANGED <<bookings, business, users, locations, messaging, services, now, calls>>

\* From save() to the response: the update, the re-read and the notification
\* block.
SaveOf(h) ==
  /\ req[h].at = "mutated"
  /\ LET r == req[h]
         doc == r.doc[1]
         after == SaveModified(bookings[r.id], r.doc[2], doc)
     IN IF ~SaveOk(doc)
        THEN /\ resp' = [resp EXCEPT ![h] = ErrorResp(500, "Server error")]
             /\ UNCHANGED bookings
        ELSE /\ bookings' = [bookings EXCEPT ![r.id] = after]
             /\ resp' = [resp EXCEPT ![h] =
                           Success(SuccessOf(r.op).code, SuccessOf(r.op).message, r.id, after,
                                   QuietEntries(r.op, doc))]
  /\ req' = [req EXCEPT ![h] = [@ EXCEPT !.at = "responded"]]
  /\ UNCHANGED <<business, users, locations, messaging, services, now, calls>>

\* The response of handler h leaves.
DeliverOf(h) ==
  /\ req[h].op # "none" /\ req[h].at = "responded"
  /\ req' = [req EXCEPT ![h] = BaseReq]
  /\ resp' = [resp EXCEPT ![h] = NoResp]
  /\ UNCHANGED <<bookings, business, users, locations, messaging, services, now, calls>>

NextRace ==
  \/ \E h \in Handlers, r \in RaceRequests : BeginOf(h, r)
  \/ \E h \in Handlers : SaveOf(h)
  \/ \E h \in Handlers : DeliverOf(h)

SpecRace == InitRace /\ [][NextRace]_vars

(***************************************************************************)
(* Two add-bookings handlers between their provider call and their pruning *)
(* update, beside save-fcm-token and remove-fcm-token of businessRoutes.ts. *)
(* Every update of fcmTokens is one update query on the stored document.   *)
(***************************************************************************)
\* A pruning that would write back the list the handler read, less the dead.
PruneFromRead(stored, read, dead) == Pull(read, dead)

\* BusinessInfo.updateOne({ _id }, { $pull: { fcmTokens: { $in: dead } } })
PruneUpdate(stored, read, dead) == Pull(stored, dead)

\* { $addToSet: { fcmTokens: tok } }
AddToSet(arr, tok) == IF InSeq(tok, arr) THEN arr ELSE Append(arr, tok)

\* A provider that answers every token with ok or with a dead-token code.
StrictMessaging ==
  Messaging({"sendEachForMulticast"}, {"ok", "messaging/registration-token-not-registered"}, FALSE)

\* The handler that serves the token routes meanwhile.
TokenHandler == 3

InitPrune ==
  /\ bookings = <<>>
  /\ business = [clientId |-> OwnerId, fcmTokens |-> <<T1, T2>>, operatingSchedule |-> WeekSchedule]
  /\ users = [u \in UserIds |-> IF u = "c1" THEN UserDoc(TRUE, <<T2>>, Undef)
                                ELSE UserDoc(FALSE, <<>>, Undef)]
  /\ locations = [c \in Clients |-> <<>>]
  /\ messaging = StrictMessaging
  /\ services = StoredService
  /\ now = 0
  /\ req = [h \in Handlers \cup {TokenHandler} |-> BaseReq]
  /\ resp = [h \in Handlers \cup {TokenHandler} |-> NoResp]
  /\ calls = <<>>

\* add-bookings from the request to the answer of the provider: req[h].step
\* holds the result of the helper, what the surroundings did, the tokens of
\* the call and the fcmTokens of the business document the handler loaded.
CreateOf(h, r) ==
  /\ req[h].op = "none"
  /\ now < MaxTime
  /\ Len(bookings) < MaxBookings
  /\ LET g == Guarded(r, FALSE, now + 1)
         tokens == BusinessTokensForCreate(business, users[business.clientId])
     IN /\ g.code = 0 /\ SaveOk(g.doc[1])
        /\ \E outcome \in Outcomes(messaging, tokens) :
             LET sent == IF tokens = <<>> THEN NoSend("note")
                         ELSE sendPushToTokens(messaging, tokens, outcome)
             IN req' = [req EXCEPT ![h] =
                          [r EXCEPT !.at = "dispatched", !.id = Len(bookings) + 1, !.doc = g.doc,
                                    !.step = <<sent, outcome, tokens, business.fcmTokens>>]]
        /\ bookings' = Append(bookings, g.doc[1])
        /\ now' = now + 1
        /\ resp' = [resp EXCEPT ![h] = NoResp]
        /\ UNCHANGED <<business, users, locations, messaging, services, calls>>

\* Its pruning update, when a token was reported dead, and its response.
PullOf(h) ==
  /\ req[h].at = "dispatched"
  /\ LET sent == req[h].step[1]
         outcome == req[h].step[2]
         dead == sent.failedTokens
     IN /\ business' = IF dead # <<>> /\ ~outcome.pullFails
                       THEN [business EXCEPT !.fcmTokens = PruneUpdate(@, req[h].step[4], dead)]
                       ELSE business
        /\ resp' = [resp EXCEPT ![h] =
                      Success(201, "Booking created.", req[h].id, req[h].doc[1],
                              <<NotificationEntry("business", sent,
                                  IF outcome.pullFails THEN <<>> ELSE dead,
                                  dead # <<>> /\ outcome.pullFails)>>)]
  /\ req' = [req EXCEPT ![h] = [@ EXCEPT !.at = "responded"]]
  /\ UNCHANGED <<bookings, users, locations, messaging, services, now, calls>>

\* POST /save-fcm-token (add = TRUE) and POST /remove-fcm-token (add = FALSE)
TokenRouteOf(h, add, businessId, token) ==
  LET r == [BaseReq EXCEPT !.op = IF add THEN "save-fcm-token" ELSE "remove-fcm-token",
                           !.businessId = businessId]
      tok == IF IsString(token) THEN Trim(token.s) ELSE <<>>
      answer(code, message) ==
        /\ resp' = [resp EXCEPT ![h] = ErrorResp(code, message)]
        /\ UNCHANGED business
  IN
  /\ req[h].op = "none"
  /\ req' = [req EXCEPT ![h] = r]
  /\ IF businessId = Missing \/ ~Truthy(token)
     THEN answer(400, "businessId and token are required.")
     ELSE IF ~ValidObjectId(businessId) THEN answer(400, "Invalid businessId format.")
     ELSE IF tok = <<>> THEN answer(400, "token must be a non-empty string.")
     ELSE IF businessId # BusinessId THEN answer(404, "Business not found.")
     ELSE /\ business' = [business EXCEPT !.fcmTokens =
                            IF add THEN AddToSet(@, Str(tok)) ELSE Pull(@, <<Str(tok)>>)]
          /\ resp' = [resp EXCEPT ![h] =
                        ErrorResp(200, IF add THEN "Token saved." ELSE "Token removed (if it existed).")]
  /\ UNCHANGED <<bookings, users, locations, messaging, services, now, calls>>

PaddedT3 == Str(<<" ", "t", "3">>)
TokenRequests ==
  {<<TRUE, BusinessId, PaddedT3>>, <<FALSE, BusinessId, PaddedT3>>, <<TRUE, BusinessId, Blank>>,
   <<FALSE, BusinessId, Undef>>, <<TRUE, BadId, T1>>, <<FALSE, GhostId, T1>>}

NextPrune ==
  \/ \E h \in Handlers : CreateOf(h, RequestOfC1)
  \/ \E h \in Handlers : PullOf(h)
  \/ \E in \in TokenRequests : TokenRouteOf(TokenHandler, in[1], in[2], in[3])
  \/ \E h \in Handlers \cup {TokenHandler} : DeliverOf(h)

SpecPrune == InitPrune /\ [][NextPrune]_vars

(***************************************************************************)
(* Properties of the error paths and of the notification step.             *)
(***************************************************************************)
\* The codes of ValidationError, Forbidden, NotFound and Conflict.
RefusalCodes == {400, 403, 404, 409}

\* C19: a request answered 400, 403, 404 or 409 leaves every stored booking
\* and every stored token collection (the clients' and the business's) as it
\* was, and makes no provider call.
C19_RefusalChangesNothing ==
  [][(Idle /\ req'.op # "none" /\ resp'.code \in RefusalCodes) =>
       /\ bookings' = bookings
       /\ users' = users
       /\ business' = business
       /\ calls' = <<>>]_vars

\* A track of a booking that has a final status was answered 409 while
\* bookings and tokens are stored.
C19_Witness ==
  /\ req.op = "track"
  /\ resp.code = 409
  /\ req.id \in 1..Len(bookings)
  /\ TrackBlocked(bookings[req.id].status)
  /\ business.fcmTokens # <<>>

\* The status a request leaves on the booking it changed.
NewStatusOf(r) ==
  CASE r.op = "create" -> {"pending"}
    [] r.op = "accept" -> {"confirmed"}
    [] r.op = "reject" -> {"rejected"}
    [] r.op = "cancel" -> {"cancelled"}
    [] r.op = "track" -> {"confirmed", "completed"}
    [] OTHER -> {}

\* C18: whatever the notification step does (provider absent or without a
\* send method, provider call throws, every token fails, the pruning update
\* throws), a request whose save went through is answered with its success
\* code and the saved booking, and the stored booking has the new status.
C18_NotificationNeverFailsRequest ==
  [][(Idle /\ bookings' # bookings) =>
       /\ resp'.code = (IF req'.op = "create" THEN 201 ELSE 200)
       /\ LET id == IF req'.op = "create" THEN Len(bookings') ELSE req'.id IN
          /\ resp'.booking = <<bookings'[id]>>
          /\ bookings'[id].status \in NewStatusOf(req')
          /\ \A i \in 1..Len(bookings) : i # id => bookings'[i] = bookings[i]]_vars

\* An accept was answered 200 with the confirmed booking although the
\* provider call threw.
C18_Witness ==
  /\ req.op = "accept"
  /\ resp.code = 200
  /\ bookings[req.id].status = "confirmed"
  /\ Len(resp.notification) = 1
  /\ resp.notification[1].kind = "error"
  /\ calls # <<>>

\* The parties the specification has a state change notify.
AffectedParties(op) ==
  CASE op = "create" -> {"business"}
    [] op = "cancel" -> {"business", "client"}
    [] op \in {"accept", "reject", "track"} -> {"client"}
    [] OTHER -> {}

\* Every token stored for a client.
StoredClientTokens(u) ==
  {users[u].fcmTokens[i] : i \in 1..Len(users[u].fcmTokens)}
    \cup {t \in {users[u].fcmToken} : IsString(t)}

\* Every token stored for a party of a booking: the client's own, or the
\* business's and its owner's.
StoredTokens(party, booking) ==
  IF party = "client" THEN StoredClientTokens(booking.clientId)
  ELSE {business.fcmTokens[i] : i \in 1..Len(business.fcmTokens)}
         \cup StoredClientTokens(business.clientId)

\* C20: a request that changes a booking makes at most one provider call per
\* party, each to an affected party and to tokens stored for that party, and
\* where the provider can send, one call to every affected party that has a
\* token: add-bookings calls for the business, accept, reject and track for
\* the client, cancel-booking for both.
C20_OneDispatchPerAffectedParty ==
  [][(Idle /\ bookings' # bookings) =>
       LET id == IF req'.op = "create" THEN Len(bookings') ELSE req'.id
           booking == bookings'[id]
           parties == AffectedParties(req'.op)
       IN
       /\ \A i \in 1..Len(calls') :
            /\ calls'[i].party \in parties
            /\ calls'[i].tokens # <<>>
            /\ \A k \in 1..Len(calls'[i].tokens) :
                 calls'[i].tokens[k] \in StoredTokens(calls'[i].party, booking)
            /\ \A j \in 1..Len(calls') : calls'[j].party = calls'[i].party => j = i
       /\ \A p \in parties :
            (messaging.available /\ messaging.methods # {} /\ StoredTokens(p, booking) # {}) =>
              \E i \in 1..Len(calls') : calls'[i].party = p]_vars

\* The second cancel-booking cancelled a booking and made no provider call,
\* although the provider can send and both parties have a token.
C20_Witness ==
  /\ req.op = "cancel" /\ resp.code = 200
  /\ bookings[req.id].status = "cancelled"
  /\ messaging = HealthyMessaging
  /\ StoredTokens("business", bookings[req.id]) # {}
  /\ StoredTokens("client", bookings[req.id]) # {}
  /\ calls = <<>>

\* Every token stored in a client document, and in the business document.
TokensOfUser(d) ==
  {d.fcmTokens[i] : i \in 1..Len(d.fcmTokens)} \cup {t \in {d.fcmToken} : IsString(t)}

TokensOfBusiness(b) == {b.fcmTokens[i] : i \in 1..Len(b.fcmTokens)}

\* The tokens a step removes from the stored token collections.
RemovedTokens ==
  UNION {TokensOfUser(users[u]) \ TokensOfUser(users'[u]) : u \in UserIds}
    \cup (TokensOfBusiness(business) \ TokensOfBusiness(business'))

\* C17: within a request the save comes after the guard and the assignments
\* and before every provider call, and a token is removed only after the
\* provider call that was made with it has returned: a step that writes a
\* booking writes the document the handler holds, before any provider call
\* and any response of the request; a step that calls the provider finds
\* that document stored; a step that changes a token collection only removes
\* tokens, all of them tokens of the last provider call made, and makes no
\* call itself.
C17_PersistDispatchPrune ==
  [][/\ bookings' # bookings =>
          /\ req.op # "none" /\ req.doc # <<>>
          /\ req'.id \in 1..Len(bookings') /\ bookings'[req'.id] = req.doc[1]
          /\ calls = <<>> /\ calls' = <<>>
          /\ resp.code = 0 /\ resp'.code = 0
          /\ users' = users /\ business' = business
     /\ calls' # calls /\ calls' # <<>> =>
          /\ req.op # "none" /\ req.doc # <<>>
          /\ req.id \in 1..Len(bookings) /\ bookings[req.id] = req.doc[1]
          /\ bookings' = bookings
          /\ users' = users /\ business' = business
     /\ (users' # users \/ business' # business) =>
          /\ calls # <<>> /\ calls' = calls
          /\ RemovedTokens # {}
          /\ \A t \in RemovedTokens :
               \E k \in 1..Len(calls[Len(calls)].tokens) : calls[Len(calls)].tokens[k] = t
          /\ \A u \in UserIds : TokensOfUser(users'[u]) \subseteq TokensOfUser(users[u])
          /\ TokensOfBusiness(business') \subseteq TokensOfBusiness(business)
          /\ bookings' = bookings]_vars

\* A cancel-booking has saved the cancelled booking, called the provider for
\* the business and for the client, and removed the client's dead token after
\* the second call.
C17_Witness ==
  /\ req.op = "cancel"
  /\ req.at = "notified"
  /\ bookings[req.id].status = "cancelled"
  /\ Len(calls) = 2
  /\ Len(req.entries) = 2
  /\ req.entries[2].removed # <<>>
  /\ \A k \in 1..Len(req.entries[2].removed) :
       req.entries[2].removed[k] \notin TokensOfUser(users[bookings[req.id].clientId])

(***************************************************************************)
(* Properties of the dispatch and of the pruning that follows it.          *)
(***************************************************************************)
\* The handler has made the provider call for a party and is about to prune.
AfterDispatch == req.at = "dispatched"

\* The tokens the provider call just made reported dead.
ReportedDead ==
  IF req.step[2].throws THEN {}
  ELSE {req.step[3][i] : i \in {k \in 1..Len(req.step[3]) : req.step[2].codes[k] \in DeadCodes}}

KeepAlive(arr, dead) == SelectSeq(arr, LAMBDA t : t \notin dead)

\* A client document without the tokens of dead.
UserWithout(d, dead) ==
  [d EXCEPT !.fcmTokens = KeepAlive(@, dead),
            !.fcmToken = IF @ \in dead THEN Undef ELSE @]

\* C21: when a provider call reported the dead tokens D and the pruning
\* update went through, the stored token collections of the party that was
\* notified (the client's document; the business's document and its owner's)
\* are what they were without the tokens of D.
C21_PruneRemovesExactlyDead ==
  [][(AfterDispatch /\ req'.at # "dispatched" /\ ReportedDead # {} /\ ~req.step[2].pullFails) =>
       IF Head(req.parties) = "business"
       THEN /\ business'.fcmTokens = KeepAlive(business.fcmTokens, ReportedDead)
            /\ users'[business.clientId] = UserWithout(users[business.clientId], ReportedDead)
       ELSE users'[req.doc[1].clientId] = UserWithout(users[req.doc[1].clientId], ReportedDead)]_vars

\* An add-bookings for a business without tokens of its own was sent to the
\* owner's token, the provider reported it dead, the pruning update went
\* through, and the owner still has the token.
C21_Witness ==
  /\ req.op = "create"
  /\ req.at = "notified"
  /\ business.fcmTokens = <<>>
  /\ Len(calls) = 1
  /\ calls[1].tokens = <<users[business.clientId].fcmToken>>
  /\ req.entries[1].removed = calls[1].tokens

\* C22: the tokens a dispatch lists as dead (removedInvalidTokens, when the
\* pruning update went through) are those whose own response is a failure
\* with one of the two dead-token codes, and no pruning removes a stored
\* token whose response was a success or a failure with another code.
C22_DeadIffPermanentCode ==
  [][(AfterDispatch /\ req'.at # "dispatched") =>
       LET removed == req'.entries[Len(req'.entries)].removed IN
       /\ ~req.step[2].pullFails => {removed[i] : i \in 1..Len(removed)} = ReportedDead
       /\ RemovedTokens \subseteq ReportedDead]_vars

\* An accept was sent to two tokens of the client; one failed with
\* messaging/internal-error and stays stored, the other was reported
\* not registered and was removed.
C22_Witness ==
  /\ req.op = "accept"
  /\ req.at = "notified"
  /\ Len(calls) = 1
  /\ calls[1].tokens = <<T2, T3>>
  /\ req.entries[1].successCount = 0
  /\ req.entries[1].failureCount = 2
  /\ req.entries[1].removed = <<T3>>
  /\ users[bookings[req.id].clientId].fcmTokens = <<T2>>

NoProvider == ~messaging.available \/ messaging.methods = {}

\* C24: without a provider no call is made, every notification entry is a
\* note (not an error), no stored token is removed, and the request that
\* saved its booking is answered with its success code.
C24_UnavailableIsNoOp ==
  [][NoProvider =>
       /\ calls' = <<>>
       /\ users' = users /\ business' = business
       /\ \A i \in 1..Len(req'.entries) :
            /\ req'.entries[i].kind = "note"
            /\ ~req'.entries[i].removeError
            /\ req'.entries[i].removed = <<>>
       /\ (req.at = "notified" /\ req'.at = "responded") =>
            /\ resp'.code = (IF req.op = "create" THEN 201 ELSE 200)
            /\ resp'.notification = req.entries
            /\ resp'.booking = <<bookings[req.id]>>]_vars

\* Without a provider a cancel-booking of a client and a business that both
\* have tokens was answered 200 with two notes.
C24_Witness ==
  /\ ~messaging.available
  /\ req.op = "cancel"
  /\ req.at = "responded"
  /\ resp.code = 200
  /\ Len(resp.notification) = 2
  /\ resp.notification[1].kind = "note"
  /\ resp.notification[2].kind = "note"
  /\ business.fcmTokens # <<>>
  /\ TokensOfUser(users[bookings[req.id].clientId]) # {}
  /\ bookings[req.id].status = "cancelled"

\* The delivery shape the provider should be called with.
PreferredShape ==
  IF ~messaging.available THEN "none"
  ELSE IF "sendEachForMulticast" \in messaging.methods THEN "sendEachForMulticast"
  ELSE IF "sendMulticast" \in messaging.methods THEN "sendMulticast"
  ELSE IF "sendToDevice" \in messaging.methods THEN "sendToDevice"
  ELSE "none"

\* C25: a dispatch with tokens makes exactly one provider call, with the
\* first of sendEachForMulticast, sendMulticast, sendToDevice the provider
\* has, whether that call answers or throws, and none when the provider has
\* no such method; no other step calls the provider.
C25_FirstSupportedShapeOnly ==
  [][/\ (req.at = "persisted" /\ req'.at = "dispatched") =>
          IF req'.step[3] = <<>> \/ PreferredShape = "none"
          THEN calls' = calls
          ELSE /\ Len(calls') = Len(calls) + 1
               /\ \A i \in 1..Len(calls) : calls'[i] = calls[i]
               /\ calls'[Len(calls')].method = PreferredShape
               /\ calls'[Len(calls')].tokens = req'.step[3]
     /\ ~(req.at = "persisted" /\ req'.at = "dispatched") => calls' \in {calls, <<>>}]_vars

\* A provider that has the three send methods was called once, with
\* sendEachForMulticast, and the call threw.
C25_Witness ==
  /\ messaging.methods = {"sendEachForMulticast", "sendMulticast", "sendToDevice"}
  /\ AfterDispatch
  /\ req.step[2].throws
  /\ Len(calls) = 1
  /\ calls[1].method = "sendEachForMulticast"

\* C26: the token list of every provider call holds only strings that are
\* not blank, and no token twice.
C26_TokenListDeduplicated ==
  \A c \in 1..Len(calls) :
    LET tokens == calls[c].tokens IN
    /\ \A i \in 1..Len(tokens) : IsString(tokens[i]) /\ Trim(tokens[i].s) # <<>>
    /\ \A i, j \in 1..Len(tokens) : tokens[i] = tokens[j] => i = j

\* An accept for a client whose fcmTokens array holds one token twice called
\* the provider with that token twice.
C26_Witness ==
  /\ req.op = "accept"
  /\ Len(calls) = 1
  /\ calls[1].party = "client"
  /\ calls[1].tokens = <<T2, T2>>
  /\ users[req.doc[1].clientId].fcmTokens = <<T2, T2>>

(***************************************************************************)
(* Properties of the tracking history and of the location snapshot.        *)
(***************************************************************************)
\* C27: every step leaves each stored booking in place with a history that
\* starts with the entries it had, unchanged and in the same order.
C27_HistoryAppendOnly ==
  [][\A i \in 1..Len(bookings) :
       /\ i <= Len(bookings')
       /\ Len(bookings'[i].trackingHistory) >= Len(bookings[i].trackingHistory)
       /\ SubSeq(bookings'[i].trackingHistory, 1, Len(bookings[i].trackingHistory))
            = bookings[i].trackingHistory]_vars

\* A cancel-booking was served on a booking that had a history entry from a
\* track: the history holds that entry, then "Cancelled".
C27_Witness ==
  /\ req.op = "cancel" /\ resp.code = 200
  /\ Len(bookings[req.id].trackingHistory) = 2
  /\ bookings[req.id].trackingHistory[1].status # CancelledLabel
  /\ bookings[req.id].trackingHistory[2].status = CancelledLabel

SelectedNow(c) ==
  LET locs == locations[c]
      chosen == {i \in 1..Len(locs) : locs[i].selectedLocation /\ \A j \in 1..(i - 1) : ~locs[j].selectedLocation}
  IN {locs[i] : i \in chosen}

\* The address carries a non-blank string and numeric coordinates.
Qualifies(loc) ==
  /\ IsString(loc.address) /\ Trim(loc.address.s) # <<>>
  /\ loc.latitude.t = "number" /\ loc.longitude.t = "number"

ValuesOf(loc) ==
  [present |-> TRUE, address |-> Trim(loc.address.s),
   latitude |-> loc.latitude.n, longitude |-> loc.longitude.n]

\* C29: the location of a stored booking never changes: no accept, reject,
\* cancel or track request, and no save-location request that adds, rewrites,
\* selects or unselects an address of its client, alters the location the
\* booking was created with, and no booking disappears.
C29_LocationFixedAtCreate ==
  [][/\ Len(bookings') >= Len(bookings)
     /\ \A i \in 1..Len(bookings) : bookings'[i].location = bookings[i].location]_vars

\* A booking that has left pending keeps its location although save-location
\* has just given its client another selected address, or none.
C29_Witness ==
  /\ req.op = "save-location" /\ resp.code \in {200, 201}
  /\ \E i \in 1..Len(bookings) :
       /\ bookings[i].location.present
       /\ bookings[i].status # "pending"
       /\ \A loc \in SelectedNow(bookings[i].clientId) :
            ~Qualifies(loc) \/ ValuesOf(loc) # bookings[i].location

\* add-bookings has just answered 201.
Created == req.op = "create" /\ resp.code = 201

CreateWithService ==
  /\ req.op = "create" /\ req.serviceId = ServiceId
  /\ [req EXCEPT !.serviceTitle = Title, !.servicePrice = Undef, !.serviceDuration = Undef,
                 !.lookupFailed = FALSE]
       = [RequestOfC1 EXCEPT !.serviceId = ServiceId]

\* C31: a create request that names a resolvable service is answered 201 and
\* the stored booking has, for each of title, price and duration, the value
\* of the request when the request supplies one and the value of the service
\* record when it does not; in particular a request without a title is
\* stored with the title of the service.
C31_ServiceFieldsResolved ==
  CreateWithService =>
    /\ resp.code = 201
    /\ LET b == bookings[Len(bookings)] IN
       /\ b.serviceTitle = Trim((IF Truthy(req.serviceTitle) THEN req.serviceTitle ELSE services.title).s)
       /\ b.servicePrice = (IF req.servicePrice.t = "undefined" THEN services.price ELSE req.servicePrice)
       /\ b.serviceDuration = (IF Truthy(req.serviceDuration) THEN req.serviceDuration ELSE services.duration)

\* The fields of a booking that no transition is to touch.
Snapshot(b) ==
  <<b.paymentStatus, b.serviceTitle, b.servicePrice, b.serviceDuration, b.scheduledAt,
    b.clientId, b.businessId, b.serviceId>>

\* C32: no step changes the payment status, the service title, price and
\* duration, the scheduled instant or the client, business and service
\* references of a stored booking: not accept, reject, cancel-booking or
\* track, and not an edit of the service the booking was made for.
C32_TransitionsKeepSnapshot ==
  [][\A i \in 1..Len(bookings) :
       i <= Len(bookings') /\ Snapshot(bookings'[i]) = Snapshot(bookings[i])]_vars

\* A tracking update has just been stored for a booking whose service has
\* been given another title, price and duration since the booking was made.
C32_Witness ==
  /\ req.op = "track" /\ resp.code = 200
  /\ LET b == bookings[req.id] IN
     /\ b.serviceId = ServiceId
     /\ b.serviceTitle # services.title.s
     /\ b.servicePrice # services.price
     /\ b.serviceDuration # services.duration
     /\ b.paymentStatus = "pending"

(***************************************************************************)
(* Properties of handlers that run at the same time.                       *)
(***************************************************************************)
\* Handler h has passed its guards and awaits its save / has answered.
AwaitsSave(h) == req[h].at = "mutated"
Answered(h) == req[h].op # "none" /\ req[h].at = "responded"

\* C33: transition requests on one booking are not serialized: a handler
\* that passed its guard on the copy it loaded, and whose copy is valid,
\* always persists and answers 200, and the status it assigned replaces the
\* stored one whatever another handler has written since the load, a final
\* status included.
C33_SaveOverwritesWithoutRecheck ==
  [][\A h \in Handlers :
       (AwaitsSave(h) /\ req'[h].at = "responded" /\ SaveOk(req[h].doc[1])) =>
         /\ resp'[h].code = 200
         /\ req[h].doc[1].status # req[h].doc[2].status
              => bookings'[req[h].id].status = req[h].doc[1].status]_vars

\* A reject and an accept both loaded the booking as pending and both
\* answered 200; the reject stored "rejected" and the accept, saving after
\* it, has made the booking "confirmed".
C33_Witness ==
  \E h, k \in Handlers :
    /\ req[h].op = "reject" /\ req[k].op = "accept"
    /\ Answered(h) /\ Answered(k)
    /\ resp[h].code = 200 /\ resp[k].code = 200
    /\ req[h].doc[2].status = "pending" /\ req[k].doc[2].status = "pending"
    /\ resp[h].booking[1].status = "rejected"
    /\ bookings[1].status = "confirmed"

\* C35: in every state, also while two handlers work on the same booking, a
\* stored booking has a rejection reason only when its status is rejected.
C35_ReasonOnlyWhenRejectedUnderRace ==
  \A i \in 1..Len(bookings) :
    Truthy(bookings[i].rejectionReason) => bookings[i].status = "rejected"

\* The tokens a handler was told are dead, and whether its update goes through.
DeadOf(h) == {req[h].step[1].failedTokens[i] : i \in 1..Len(req[h].step[1].failedTokens)}
Prunes(h) == req[h].at = "dispatched" /\ DeadOf(h) # {} /\ ~req[h].step[2].pullFails
ElementsOf(seq) == {seq[i] : i \in 1..Len(seq)}

\* C34: a pruning step takes exactly its dead tokens out of the list that is
\* stored when it runs, whatever the handler read earlier and whatever other
\* handlers and save-fcm-token did in between, and every other token stays
\* in place; and for two handlers about to prune, pruning in either order
\* gives the stored list without the union of their dead tokens.
C34_PruneIsCommutative ==
  /\ [](\A h, k \in Handlers :
          (h # k /\ Prunes(h) /\ Prunes(k)) =>
            LET S == business.fcmTokens
                A == req[h].step[1].failedTokens
                B == req[k].step[1].failedTokens
            IN /\ Pull(Pull(S, A), B) = Pull(Pull(S, B), A)
               /\ Pull(Pull(S, A), B) = KeepAlive(S, DeadOf(h) \cup DeadOf(k)))
  /\ [][\A h \in Handlers :
          (req[h].at = "dispatched" /\ req'[h].at = "responded") =>
            business'.fcmTokens = IF Prunes(h) THEN KeepAlive(business.fcmTokens, DeadOf(h))
                                  ELSE business.fcmTokens]_vars

\* Two handlers read the same list, were told of different dead tokens and
\* have both pruned; a token registered after they read is still stored and
\* none of their dead tokens is.
C34_Witness ==
  \E h, k \in Handlers :
    /\ h # k
    /\ req[h].op = "create" /\ req[k].op = "create" /\ Answered(h) /\ Answered(k)
    /\ DeadOf(h) # {} /\ DeadOf(k) # {} /\ DeadOf(h) # DeadOf(k)
    /\ ~req[h].step[2].pullFails /\ ~req[k].step[2].pullFails
    /\ T3 \in ElementsOf(business.fcmTokens)
    /\ T3 \notin ElementsOf(req[h].step[4]) \cup ElementsOf(req[k].step[4])
    /\ ElementsOf(business.fcmTokens) \cap (DeadOf(h) \cup DeadOf(k)) = {}

(***************************************************************************)
(* Properties of the order of statuses and of the order of the guards.     *)
(***************************************************************************)
\* C36: no step gives the status pending to a booking whose status is not
\* pending, a booking is stored as pending when it is created, and a step
\* that makes a booking completed is a track request on that booking.
C36_NeverPendingAgain ==
  [][\A i \in 1..Len(bookings') :
       IF i <= Len(bookings)
       THEN /\ bookings[i].status # "pending" => bookings'[i].status # "pending"
            /\ (bookings[i].status # "completed" /\ bookings'[i].status = "completed")
                 => (req'.op = "track" /\ req'.id = i)
       ELSE bookings'[i].status = "pending"]_vars

\* A booking that an earlier request had already changed has been completed
\* by a track.
C36_Witness ==
  /\ req.op = "track" /\ resp.code = 200
  /\ req.id \in 1..Len(bookings)
  /\ bookings[req.id].status = "completed"
  /\ bookings[req.id].updatedAt > bookings[req.id].createdAt + 1

\* C37: whenever the request being answered is a cancel-booking that names
\* a stored booking and carries a well-formed clientId other than the
\* booking's, the answer is 403, whatever the status of the booking, the
\* terminal ones included; it is never the 409 of the status guard.
C37_OwnerCheckedBeforeStatus ==
  (/\ req.op = "cancel"
   /\ req.id \in 1..Len(bookings)
   /\ req.clientId \notin {Missing, BadId}
   /\ req.clientId # bookings[req.id].clientId) =>
     /\ resp.code = 403
     /\ resp.code # 409

\* Another client asked to cancel a booking that was already rejected or
\* cancelled and got the 403.
C37_Witness ==
  /\ req.op = "cancel" /\ resp.code = 403
  /\ req.id \in 1..Len(bookings)
  /\ req.clientId \in Clients
  /\ req.clientId # bookings[req.id].clientId
  /\ bookings[req.id].status \in FinalStatuses

\* C38: when the entry of the requested weekday is not closed and its open
\* and close parse to the same minute of the day, a well-formed add-bookings
\* for any time of that day is answered 201 and stored: the window is the
\* whole day.
C38_EqualTimesWholeDay ==
  [][req'.op = "create" =>
       LET at == req'.scheduledAt
           entry == business.operatingSchedule.days[weekdayIndexToKey(at.day)]
           s == parseTimeToMinutes(entry.open)
           e == parseTimeToMinutes(entry.close)
       IN (/\ business.operatingSchedule.present /\ entry.defined /\ ~entry.closed
           /\ s # NoMinutes /\ e = s) =>
            /\ resp'.code = 201
            /\ Len(bookings') = Len(bookings) + 1
            /\ bookings'[Len(bookings')].scheduledAt = at]_vars

\* Sunday is 09:00-09:00 and a booking for Sunday 08:59, before the opening
\* time, was created.
C38_Witness ==
  /\ req.op = "create" /\ resp.code = 201
  /\ business.operatingSchedule = OddSchedule
  /\ req.scheduledAt = Instant(0, 8, 59)
  /\ bookings[Len(bookings)].scheduledAt = Instant(0, 8, 59)

====
